---------------------------- MODULE Spec2Model ----------------------------
(***************************************************************************)
(* Reconciliation planning and execution engine of grafana-ad-syncher:     *)
(* Syncer.BuildPlan, Syncer.ApplyPlan and Syncer.Run, the plan handlers of *)
(* the web server that call them, the plan table of the store, and the     *)
(* Grafana and Entra collaborators as far as the engine calls them.        *)
(***************************************************************************)
EXTENDS Integers, Sequences, FiniteSets, TLC

(***************************************************************************)
(* Bounds of the model.                                                    *)
(***************************************************************************)
\* mappings in the store
MaxMappings == 2
\* collaborator or store calls that fail in one behaviour
MaxFailures == 1
\* scheduler ticks and handler requests in one behaviour
MaxCycles == 2
\* readings of the clock the cache of the UI is stamped with
MaxClock == 3

(***************************************************************************)
(* The universe: e-mail addresses, organizations, teams, groups.           *)
(***************************************************************************)
Emails == {"alice", "bob"}
\* what the directory returns in Member.Mail and the platform in Email; "" is
\* a member without mail
RawMails == {"alice", " Alice", "ALICE", "bob", ""}
OrgIDs == {1, 2}
\* "Ops" and "ops" differ only in case
TeamNames == {"ops", "Ops", "dev"}
Groups == {"g1", "g2"}
OrgRoles == {"Viewer", "Editor", "Admin"}
\* what LatestPlan returns when table plans is empty (nil)
NoPlan == [ID |-> 0, Status |-> "none", Actions |-> <<>>]
\* the tables plans and plan_actions after migrate
EmptyTables == [plans |-> {}, plan_actions |-> <<>>]

VARIABLES
    cfg,         \* Syncer.defaultUserRole, allowCreateUsers, allowRemoveUsers
    orgs,        \* store table orgs, in ListOrgs order
    mappings,    \* store table mappings, in ListMappings order
    entra,       \* directory: group id -> set of member mails
    grafana,     \* platform: users, teams, team members, org users
    plan,        \* store tables plans (rows) and plan_actions (rows by id)
    nextID,      \* AUTOINCREMENT counters of tables plans and plan_actions
    syncActions, \* audit ledger, in append order
    pc,          \* position of each goroutine
    loc,         \* locals of each goroutine
    lastRun,     \* Syncer.lastRun / lastMessage, under Syncer.mu
    failures,    \* failed calls so far
    cycles,      \* ticks and requests so far
    refresh,     \* Server.refresh, under Server.cacheMu
    cache,       \* Server.cache, under Server.cacheMu
    ui,          \* position and locals of each goroutine of the UI
    now          \* time.Now()

uiVars == <<refresh, cache, ui, now>>

vars == <<cfg, orgs, mappings, entra, grafana, plan, nextID, syncActions,
          pc, loc, lastRun, failures, cycles, refresh, cache, ui, now>>

(***************************************************************************)
(* Identifiers.  An org has a store id and a platform id; the platform     *)
(* gives a team and a user an id that is never 0.                          *)
(***************************************************************************)
GrafanaOrgIDOf(orgID) == 10 + orgID
GrafanaOrgIDs == {GrafanaOrgIDOf(o) : o \in OrgIDs}
\* the platform compares team names with strings.EqualFold (SearchTeam)
TeamIDOf(gorg, name) ==
    100 + 2 * (gorg - 10) + (IF name \in {"ops", "Ops"} THEN 0 ELSE 1)
TeamIDs == {TeamIDOf(g, n) : g \in GrafanaOrgIDs, n \in TeamNames}
UserIDOf(email) == IF email = "alice" THEN 21 ELSE 22

\* strings.TrimSpace(strings.ToLower(mail))
NormalizeEmail(raw) ==
    CASE raw = " Alice" -> "alice"
      [] raw = "ALICE" -> "alice"
      [] OTHER -> raw

\* strings.ToLower(teamName)
LowerName(name) == IF name = "Ops" THEN "ops" ELSE name

teamKey(orgID, teamName) == <<orgID, LowerName(teamName)>>
TeamKeys == {teamKey(o, n) : o \in OrgIDs, n \in TeamNames}

userID(user) == IF user = "nil" THEN 0 ELSE UserIDOf(user)

roleOrder(role) ==
    CASE role = "Viewer" -> 1
      [] role = "Editor" -> 2
      [] role = "Admin" -> 3
      [] OTHER -> 0

\* a faulty maxRole: the role of the mapping processed last wins
maxRoleLast(current, candidate) == candidate

maxRole(current, candidate) ==
    IF roleOrder(candidate) > roleOrder(current) THEN candidate
    ELSE IF current = "" THEN candidate
    ELSE current

normalizeTeamRole(role) == IF role = "admin" THEN "admin" ELSE "member"

\* a faulty maxTeamRole: an admin role already aggregated is forgotten
maxTeamRoleLast(current, candidate) ==
    IF candidate = "admin" THEN "admin" ELSE "member"

maxTeamRole(current, candidate) ==
    IF candidate = "admin" THEN "admin"
    ELSE IF current = "" THEN "member"
    ELSE current

\* a faulty comparison of roles: case matters
EqualFoldExact(a, b) == a = b

\* strings.EqualFold on role names
LowerRole(role) ==
    CASE role = "Viewer" -> "viewer"
      [] role = "Editor" -> "editor"
      [] role = "Admin" -> "admin"
      [] OTHER -> role
EqualFold(a, b) == LowerRole(a) = LowerRole(b)

\* appendNote on notes kept as sequences of parts
appendNote(base, addition) == base \o addition
mappingNote(mi) == <<"mapping", mi>>


(***************************************************************************)
(* Collaborators, as the engine reads them.  A call named in `fail` ends   *)
(* with a transport error.                                                 *)
(***************************************************************************)
\* grafana.Client.SearchTeam: 0 when no team of that name exists in the org
SearchTeam(gorg, name) ==
    IF TeamIDOf(gorg, name) \in grafana.teams THEN TeamIDOf(gorg, name) ELSE 0

\* grafana.Client.LookupUser: the user, or "nil" on 404
LookupUser(email) == IF email \in grafana.users THEN email ELSE "nil"

\* the spelling in which the platform holds the e-mail of a user
MailOnPlatform(e) == IF e = "alice" THEN "ALICE" ELSE e

\* grafana.Client.ListTeamMembers: TeamMember.Email as the platform spells it
TeamMemberMails(teamID) ==
    {MailOnPlatform(e) : e \in {u \in Emails : grafana.teamMembers[teamID][u] # ""}}

\* a faulty have: the e-mails are taken as the platform spells them, those
\* not in normal form match nothing
ListTeamMembersAsSpelled(teamID) == TeamMemberMails(teamID) \cap Emails

\* have, keyed by strings.TrimSpace(strings.ToLower(tm.Email))
ListTeamMembers(teamID) ==
    {NormalizeEmail(raw) : raw \in TeamMemberMails(teamID)} \ {""}

\* grafana.Client.ListOrgUsers: OrgUser.Email as the platform spells it
OrgUserMails(gorg) ==
    {MailOnPlatform(e) : e \in {u \in Emails : grafana.orgUsers[gorg][u] # ""}}

\* orgUsersByOrgEmail[org.ID], keyed by
\* strings.ToLower(strings.TrimSpace(user.Email))
ListOrgUsers(gorg) == {NormalizeEmail(raw) : raw \in OrgUserMails(gorg)} \ {""}

\* entra.Client.ListGroupMembers followed by the normalization of BuildPlan
WantOf(group) == {NormalizeEmail(raw) : raw \in entra[group]} \ {""}

PlanAction(type, org, teamID, teamName, teamRole, uid, email, role, group, note) ==
    [ID |-> 0, PlanID |-> 0, ActionType |-> type, OrgID |-> org.ID,
     GrafanaOrgID |-> org.GrafanaOrgID, TeamID |-> teamID,
     TeamName |-> teamName, TeamRole |-> teamRole, UserID |-> uid,
     Email |-> email, Role |-> role, ExternalGroupID |-> group, Note |-> note]

\* the maps BuildPlan allocates before its loops
EmptyAcc ==
    [actions |-> <<>>,
     userCache |-> [e \in Emails |-> "unset"],
     roleByOrgEmail |-> [o \in OrgIDs |-> [e \in Emails |-> ""]],
     roleSourceByOrgEmail |-> [o \in OrgIDs |-> [e \in Emails |-> <<>>]],
     addedTeamUsers |-> [k \in TeamKeys |-> [e \in Emails |-> 0]],
     teamRoleByTeamEmail |-> [k \in TeamKeys |-> [e \in Emails |-> ""]],
     updatedTeamRoles |-> {}]

\* role and roleSource of a mapping
\* a faulty precedence: the default role of the org goes before the override
MappingRoleOrgFirst(mapping, org) ==
    IF org.DefaultRole # "" THEN org.DefaultRole
    ELSE IF mapping.RoleOverride # "" THEN mapping.RoleOverride
    ELSE cfg.defaultUserRole

MappingRole(mapping, org) ==
    IF mapping.RoleOverride # "" THEN mapping.RoleOverride
    ELSE IF org.DefaultRole # "" THEN org.DefaultRole
    ELSE cfg.defaultUserRole

MappingRoleSource(mapping, org) ==
    IF mapping.RoleOverride # "" THEN <<"mapping role override", mapping.RoleOverride>>
    ELSE IF org.DefaultRole # "" THEN <<"org default role", org.DefaultRole>>
    ELSE <<"service default role", cfg.defaultUserRole>>

\* the team-membership branch of the loop over want
TeamDelta(acc, email, user, c) ==
    LET key == teamKey(c.org.ID, c.mapping.GrafanaTeamName)
        aggregated == acc.teamRoleByTeamEmail[key][email]
    IN  IF email \notin c.have
        THEN LET teamRole == IF aggregated = "" THEN "member" ELSE aggregated
                 idx == acc.addedTeamUsers[key][email]
             IN  IF idx # 0
                 THEN IF maxTeamRole(acc.actions[idx].TeamRole, teamRole)
                            # acc.actions[idx].TeamRole
                      THEN [acc EXCEPT !.actions[idx].TeamRole = teamRole]
                      ELSE acc
                 ELSE [acc EXCEPT
                         !.actions = Append(@, PlanAction("add_user_to_team", c.org,
                             c.teamID, c.mapping.GrafanaTeamName, teamRole,
                             userID(user), email, c.role,
                             c.mapping.ExternalGroupID, mappingNote(c.mi))),
                         !.addedTeamUsers[key][email] = Len(acc.actions) + 1]
        ELSE IF aggregated = "admin" /\ <<key, email>> \notin acc.updatedTeamRoles
             THEN [acc EXCEPT
                     !.actions = Append(@, PlanAction("update_team_role", c.org,
                         c.teamID, c.mapping.GrafanaTeamName, aggregated,
                         userID(user), email, "",
                         c.mapping.ExternalGroupID, mappingNote(c.mi))),
                     !.updatedTeamRoles = @ \cup {<<key, email>>}]
             ELSE acc

\* the org-role accumulation of the loop over want
AccumulateRole(acc, email, c) ==
    LET current == acc.roleByOrgEmail[c.org.ID][email]
        next == maxRole(current, c.role)
    IN  [acc EXCEPT
           !.roleByOrgEmail[c.org.ID][email] = next,
           !.roleSourceByOrgEmail[c.org.ID][email] =
               IF next # current
               THEN appendNote(c.roleSource, mappingNote(c.mi))
               ELSE @]

\* a faulty blocked branch: the `continue` is missing, so the role of the
\* blocked user is still accumulated for the org pass
BlockedCreateUserFallThrough(acc, email, c) ==
    AccumulateRole(
        [acc EXCEPT
           !.actions = Append(@, PlanAction("blocked_create_user",
               c.org, c.teamID, c.mapping.GrafanaTeamName, "", 0,
               email, c.role, c.mapping.ExternalGroupID, mappingNote(c.mi)))],
        email, c)

\* `if !s.allowCreateUsers { ...; continue }` for a user that does not exist
BlockedCreateUser(acc, email, c) ==
    [acc EXCEPT
       !.actions = Append(@, PlanAction("blocked_create_user",
           c.org, c.teamID, c.mapping.GrafanaTeamName, "", 0,
           email, c.role, c.mapping.ExternalGroupID,
           appendNote(<<"user not found and creation disabled">>,
                      mappingNote(c.mi))))]

\* a faulty iteration: a lookup that failed is taken for "no such user"
WantStepFailedAsMissing(acc, email, c) ==
    LET cached == acc.userCache[email]
        user == IF cached # "unset" THEN cached
                ELSE IF <<"LookupUser", c.mi, email>> \in c.fail THEN "nil"
                ELSE LookupUser(email)
        acc1 == [acc EXCEPT !.userCache[email] = user]
    IN  IF user = "nil" /\ ~cfg.allowCreateUsers
        THEN BlockedCreateUser(acc1, email, c)
        ELSE LET acc2 ==
                   IF user = "nil"
                   THEN [acc1 EXCEPT
                           !.actions = Append(@, PlanAction("create_user",
                               c.org, c.teamID, c.mapping.GrafanaTeamName,
                               "", 0, email, c.role,
                               c.mapping.ExternalGroupID,
                               mappingNote(c.mi)))]
                   ELSE acc1
             IN  TeamDelta(AccumulateRole(acc2, email, c), email, user, c)

\* one iteration of `for email, member := range want`
WantStep(acc, email, c) ==
    LET cached == acc.userCache[email]
    IN  IF cached = "unset" /\ <<"LookupUser", c.mi, email>> \in c.fail
        THEN acc
        ELSE LET user == IF cached = "unset" THEN LookupUser(email) ELSE cached
                 acc1 == [acc EXCEPT !.userCache[email] = user]
             IN  IF user = "nil" /\ ~cfg.allowCreateUsers
                 THEN BlockedCreateUser(acc1, email, c)
                 ELSE LET acc2 ==
                            IF user = "nil"
                            THEN [acc1 EXCEPT
                                    !.actions = Append(@, PlanAction("create_user",
                                        c.org, c.teamID, c.mapping.GrafanaTeamName,
                                        "", 0, email, c.role,
                                        c.mapping.ExternalGroupID,
                                        mappingNote(c.mi)))]
                            ELSE acc1
                      IN  TeamDelta(AccumulateRole(acc2, email, c), email, user, c)

\* a faulty loop: only the member the iteration meets first is processed
WantLoopFirst(acc, order, c) ==
    IF order = <<>> THEN acc ELSE WantStep(acc, Head(order), c)

RECURSIVE WantLoop(_, _, _)
WantLoop(acc, order, c) ==
    IF order = <<>> THEN acc
    ELSE WantLoop(WantStep(acc, Head(order), c), Tail(order), c)

\* a faulty removal loop: nothing is emitted
RemoveLoopNone(acc, order, c) == acc

\* `for email, user := range have` under allowRemoveUsers
RECURSIVE RemoveLoop(_, _, _)
RemoveLoop(acc, order, c) ==
    IF order = <<>> THEN acc
    ELSE RemoveLoop(
            [acc EXCEPT
               !.actions = Append(@, PlanAction("remove_user_from_team", c.org,
                   c.teamID, c.mapping.GrafanaTeamName, "", UserIDOf(Head(order)),
                   Head(order), "", c.mapping.ExternalGroupID,
                   mappingNote(c.mi)))],
            Tail(order), c)

\* the team-role aggregation done while want is filled
AggregateTeamRoles(acc, key, want, teamRole) ==
    [acc EXCEPT !.teamRoleByTeamEmail[key] =
        [e \in Emails |-> IF e \in want
                          THEN maxTeamRole(@[e], normalizeTeamRole(teamRole))
                          ELSE @[e]]]

\* the body of `for _, mapping := range mappings`
MappingStep(acc, mi, fail, ord) ==
    LET mapping == mappings[mi]
        rows == {k \in 1..Len(orgs) : orgs[k].ID = mapping.OrgID}
    IN  IF rows = {} THEN acc
        ELSE
        LET org == orgs[CHOOSE k \in rows : TRUE]
            searched == IF <<"SearchTeam", mi>> \in fail THEN 0
                        ELSE SearchTeam(org.GrafanaOrgID, mapping.GrafanaTeamName)
            teamID == IF mapping.GrafanaTeamID # 0 THEN mapping.GrafanaTeamID
                      ELSE searched
            acc1 == IF teamID = 0
                    THEN [acc EXCEPT
                            !.actions = Append(@, PlanAction("create_team", org, 0,
                                mapping.GrafanaTeamName,
                                normalizeTeamRole(mapping.TeamRole), 0, "", "",
                                mapping.ExternalGroupID, mappingNote(mi)))]
                    ELSE acc
        IN  IF <<"ListGroupMembers", mi>> \in fail THEN acc1
            ELSE
            LET want == WantOf(mapping.ExternalGroupID)
                acc2 == AggregateTeamRoles(acc1,
                            teamKey(org.ID, mapping.GrafanaTeamName), want,
                            mapping.TeamRole)
            IN  IF teamID # 0 /\ (<<"ListTeamMembers", mi>> \in fail
                                  \/ teamID \notin grafana.teams)
                THEN acc2
                ELSE
                LET have == IF teamID # 0 THEN ListTeamMembers(teamID) ELSE {}
                    c == [mi |-> mi, mapping |-> mapping, org |-> org,
                          teamID |-> teamID, have |-> have, fail |-> fail,
                          role |-> MappingRole(mapping, org),
                          roleSource |-> MappingRoleSource(mapping, org)]
                    acc3 == WantLoop(acc2,
                                SelectSeq(ord.emails, LAMBDA e : e \in want), c)
                IN  IF cfg.allowRemoveUsers
                    THEN RemoveLoop(acc3,
                            SelectSeq(ord.emails, LAMBDA e : e \in have \ want), c)
                    ELSE acc3

RECURSIVE MappingLoop(_, _, _, _)
MappingLoop(acc, mi, fail, ord) ==
    IF mi > Len(mappings) THEN acc
    ELSE MappingLoop(MappingStep(acc, mi, fail, ord), mi + 1, fail, ord)

\* a faulty test: a listing that failed is taken for one that went well
OrgUsersListedAlways(orgID, fail) ==
    \E k \in 1..Len(orgs) : orgs[k].ID = orgID

\* orgUsersByOrgEmail[orgID] is nil when the org was not listed
OrgUsersListed(orgID, fail) ==
    \E k \in 1..Len(orgs) :
        orgs[k].ID = orgID /\ <<"ListOrgUsers", orgID>> \notin fail

\* one (orgID, email, role) of the reconciliation pass
OrgRoleStep(actions, orgID, email, acc, fail) ==
    LET org == orgs[CHOOSE k \in 1..Len(orgs) : orgs[k].ID = orgID]
        role == acc.roleByOrgEmail[orgID][email]
        listed == OrgUsersListed(orgID, fail)
        found == listed /\ email \in ListOrgUsers(org.GrafanaOrgID)
        existingRole == grafana.orgUsers[org.GrafanaOrgID][email]
        cachedUser == acc.userCache[email]
        user == IF cachedUser = "unset" THEN "nil" ELSE cachedUser
        source == acc.roleSourceByOrgEmail[orgID][email]
    IN  IF ~found
        THEN Append(actions, PlanAction("add_user_to_org", org, 0, "", "",
                 userID(user), email, role, "",
                 IF listed THEN source
                 ELSE appendNote(source, <<"org user lookup failed">>)))
        ELSE IF ~EqualFold(existingRole, role)
        THEN Append(actions, PlanAction("update_user_role", org, 0, "", "",
                 IF userID(user) = 0 THEN UserIDOf(email) ELSE userID(user),
                 email, role, "",
                 appendNote(source, <<"current role", existingRole>>)))
        ELSE actions

RECURSIVE OrgRoleEmails(_, _, _, _, _)
OrgRoleEmails(actions, orgID, order, acc, fail) ==
    IF order = <<>> THEN actions
    ELSE OrgRoleEmails(OrgRoleStep(actions, orgID, Head(order), acc, fail),
                       orgID, Tail(order), acc, fail)

RECURSIVE OrgRoleLoop(_, _, _, _, _)
OrgRoleLoop(actions, orgOrder, acc, fail, ord) ==
    IF orgOrder = <<>> THEN actions
    ELSE OrgRoleLoop(
            OrgRoleEmails(actions, Head(orgOrder),
                SelectSeq(ord.emails,
                    LAMBDA e : acc.roleByOrgEmail[Head(orgOrder)][e] # ""),
                acc, fail),
            Tail(orgOrder), acc, fail, ord)

\* Syncer.BuildPlan.  `fail` names the collaborator calls that fail during
\* this build; `ord` is the order in which Go ranges over the maps.
BuildPlan(fail, ord) ==
    LET acc == MappingLoop(EmptyAcc, 1, fail, ord)
    IN  [ID |-> 0, Status |-> "planned",
         Actions |-> OrgRoleLoop(acc.actions, ord.orgs, acc, fail, ord)]


(***************************************************************************)
(* Syncer.ApplyPlan.                                                        *)
(***************************************************************************)
phaseOrder(actionType) ==
    CASE actionType = "create_team" -> 1
      [] actionType = "create_user" -> 2
      [] actionType = "add_user_to_org" -> 3
      [] actionType = "update_user_role" -> 4
      [] actionType = "add_user_to_team" -> 5
      [] actionType = "update_team_role" -> 6
      [] actionType = "remove_user_from_team" -> 7
      [] OTHER -> 0

\* sort.SliceStable as a stable insertion of input position k into the
\* positions sorted so far
RECURSIVE InsertStable(_, _, _)
InsertStable(sorted, k, actions) ==
    IF sorted = <<>> THEN <<k>>
    ELSE LET last == sorted[Len(sorted)]
         IN  IF phaseOrder(actions[k].ActionType)
                    < phaseOrder(actions[last].ActionType)
             THEN Append(InsertStable(SubSeq(sorted, 1, Len(sorted) - 1), k, actions),
                         last)
             ELSE Append(sorted, k)

RECURSIVE SortFrom(_, _, _)
SortFrom(sorted, k, actions) ==
    IF k > Len(actions) THEN sorted
    ELSE SortFrom(InsertStable(sorted, k, actions), k + 1, actions)

\* a faulty sortActions: the actions stay in the order of the input list
sortActionsUnsorted(actions) == [k \in 1..Len(actions) |-> k]

\* sortActions, as the input positions in execution order
sortActions(actions) == SortFrom(<<>>, 1, actions)

EmailOfID(id) == CHOOSE e \in Emails : UserIDOf(e) = id
TeamRoleName(role) == IF role = "admin" THEN "Admin" ELSE "Member"

\* store.UpdateMappingTeamIDForName
UpdateMappingTeamIDForName(orgID, teamName, teamID) ==
    [k \in 1..Len(mappings) |->
        IF mappings[k].OrgID = orgID /\ mappings[k].GrafanaTeamName = teamName
        THEN [mappings[k] EXCEPT !.GrafanaTeamID = teamID]
        ELSE mappings[k]]

\* the row store.RecordSyncAction appends
SyncAction(action) ==
    [OrgID |-> action.OrgID, ActionType |-> action.ActionType,
     TeamName |-> action.TeamName, Email |-> action.Email]

Outcome(g, m, audit, uids, tids, res, err, failed) ==
    [grafana |-> g, mappings |-> m, audit |-> audit, userIDs |-> uids,
     teamIDs |-> tids, res |-> res, err |-> err, failed |-> failed]

\* a faulty abort that compensates: the users this batch created are deleted
AbortCompensating(l, err, failed) ==
    Outcome([grafana EXCEPT !.users = {e \in @ : l.userIDs[e] = 0}], mappings,
            <<>>, l.userIDs, l.teamIDs, "abort", err, failed)

\* `return err` out of the loop of ApplyPlan
Abort(l, err, failed) ==
    Outcome(grafana, mappings, <<>>, l.userIDs, l.teamIDs, "abort", err, failed)

\* the tail of a case: RecordSyncAction, whose error is only logged
Recorded(action, g, m, uids, tids, canFail) ==
    {Outcome(g, m, <<SyncAction(action)>>, uids, tids, "ok", "", 0)}
    \cup (IF canFail
          THEN {Outcome(g, m, <<>>, uids, tids, "ok", "", 1)}
          ELSE {})

\* a faulty resolution: only the payload is read, never the ids of the teams
\* created in this batch
ResolveTeamIDPayloadOnly(action, l) == action.TeamID

\* teamID := action.TeamID, else teamIDs[teamKey(...)]
ResolveTeamID(action, l) ==
    IF action.TeamID # 0 THEN action.TeamID
    ELSE l.teamIDs[teamKey(action.OrgID, action.TeamName)]

\* id := action.UserID, else userIDs[email] where the case consults it,
\* before any LookupUser
KnownUserID(action, l, useCreated) ==
    IF action.UserID # 0 THEN action.UserID
    ELSE IF useCreated THEN l.userIDs[action.Email]
    ELSE 0

\* ... else LookupUser, which leaves 0 when the user is not found
ResolvedUserID(action, l, useCreated) ==
    IF KnownUserID(action, l, useCreated) # 0
    THEN KnownUserID(action, l, useCreated)
    ELSE userID(LookupUser(action.Email))

\* the outcomes of a failing LookupUser inside a case
LookupFails(action, l, useCreated, canFail) ==
    IF canFail /\ KnownUserID(action, l, useCreated) = 0
    THEN {Abort(l, "lookup user failed", 1)}
    ELSE {}

\* grafana.Client.AddUserToOrg on the platform: 409 is success
AddUserToOrg(gorg, email, role) ==
    IF grafana.orgUsers[gorg][email] # "" THEN grafana
    ELSE [grafana EXCEPT !.orgUsers[gorg][email] = role]

\* grafana.Client.UpdateUserRole on the platform: 404 is success
UpdateUserRole(gorg, id, role) ==
    IF grafana.orgUsers[gorg][EmailOfID(id)] = "" THEN grafana
    ELSE [grafana EXCEPT !.orgUsers[gorg][EmailOfID(id)] = role]

\* grafana.Client.AddUserToTeam on the platform: 409 is success
AddUserToTeam(teamID, id, role) ==
    IF grafana.teamMembers[teamID][EmailOfID(id)] # "" THEN grafana
    ELSE [grafana EXCEPT !.teamMembers[teamID][EmailOfID(id)] = TeamRoleName(role)]

\* grafana.Client.UpdateTeamMemberRole on the platform: 404 is success
UpdateTeamMemberRole(teamID, id, role) ==
    IF teamID \notin grafana.teams \/ grafana.teamMembers[teamID][EmailOfID(id)] = ""
    THEN grafana
    ELSE [grafana EXCEPT !.teamMembers[teamID][EmailOfID(id)] = TeamRoleName(role)]

\* grafana.Client.RemoveUserFromTeam on the platform: 404 is success
RemoveUserFromTeam(teamID, id) ==
    IF teamID \notin grafana.teams THEN grafana
    ELSE [grafana EXCEPT !.teamMembers[teamID][EmailOfID(id)] = ""]

\* the status of POST /api/orgs/:id/users: 409 for a user that is a member
AddUserToOrgStatus(gorg, email) ==
    IF grafana.orgUsers[gorg][email] # "" THEN 409 ELSE 200

\* the status of POST /api/teams/:id/members: 409 for a user that is a member
AddUserToTeamStatus(teamID, id) ==
    IF grafana.teamMembers[teamID][EmailOfID(id)] # "" THEN 409 ELSE 200

\* the status of DELETE /api/teams/:id/members/:userId: 404 for a team or a
\* member that is not there
RemoveUserFromTeamStatus(teamID, id) ==
    IF teamID \notin grafana.teams \/ grafana.teamMembers[teamID][EmailOfID(id)] = ""
    THEN 404 ELSE 200

\* a faulty client that takes a conflict for an error
ConflictToleratedNever(status) == FALSE

\* `err != nil && status != http.StatusConflict` is false: the client
\* returns nil
ConflictTolerated(status) == status = 409

\* `err != nil && status != http.StatusNotFound` is false
NotFoundTolerated(status) == status = 404

\* a faulty test: an unresolved team id is let through
MissingTeamIDNever(teamID) == FALSE

\* `if teamID == 0 { return fmt.Errorf("missing team id for %s", ...) }`
MissingTeamID(teamID) == teamID = 0

ApplyCreateTeam(action, l, canFail) ==
    LET id == TeamIDOf(action.GrafanaOrgID, action.TeamName)
        g == [grafana EXCEPT !.teams = @ \cup {id}]
        tids == [l.teamIDs EXCEPT ![teamKey(action.OrgID, action.TeamName)] = id]
        m == UpdateMappingTeamIDForName(action.OrgID, action.TeamName, id)
    IN  Recorded(action, g, m, l.userIDs, tids, canFail)
        \cup (IF canFail
              THEN {Abort(l, "ensure team failed", 1),
                    Outcome(g, mappings, <<SyncAction(action)>>, l.userIDs, tids,
                            "ok", "", 1)}
              ELSE {})

ApplyCreateUser(action, l, canFail) ==
    IF action.Email \in grafana.users
    THEN {Abort(l, "create user: already exists", 0)}
    ELSE Recorded(action, [grafana EXCEPT !.users = @ \cup {action.Email}], mappings,
                  [l.userIDs EXCEPT ![action.Email] = UserIDOf(action.Email)],
                  l.teamIDs, canFail)
         \cup (IF canFail THEN {Abort(l, "create user failed", 1)} ELSE {})

ApplyAddUserToOrg(action, l, canFail) ==
    IF action.Email \notin grafana.users
    THEN {Abort(l, "add user to org: user not found", 0)}
    ELSE IF AddUserToOrgStatus(action.GrafanaOrgID, action.Email) >= 400
            /\ ~ConflictTolerated(AddUserToOrgStatus(action.GrafanaOrgID,
                                                     action.Email))
    THEN {Abort(l, "add user to org failed", 0)}
    ELSE Recorded(action,
                  AddUserToOrg(action.GrafanaOrgID, action.Email, action.Role),
                  mappings, l.userIDs, l.teamIDs, canFail)
         \cup (IF canFail THEN {Abort(l, "add user to org failed", 1)} ELSE {})

\* the error of grafana.Client.UpdateUserRole the platform itself decides, as
\* the set of the words of its message: the role of an org member whose
\* membership an external directory manages cannot be changed
UpdateUserRoleErr(gorg, id) ==
    IF EmailOfID(id) \in grafana.externallySynced
          /\ grafana.orgUsers[gorg][EmailOfID(id)] # ""
    THEN {"grafana:", "PATCH", "403", "org.externallySynced"}
    ELSE {}

\* a faulty test that recognises no error
isExternallySyncedUserErrNever(err) == FALSE

\* err != nil && strings.Contains(err.Error(), "org.externallySynced")
isExternallySyncedUserErr(err) == err # {} /\ "org.externallySynced" \in err

ApplyUpdateUserRole(action, l, canFail) ==
    LET id == ResolvedUserID(action, l, TRUE)
        err == UpdateUserRoleErr(action.GrafanaOrgID, id)
    IN  LookupFails(action, l, TRUE, canFail)
        \cup (IF id = 0
              THEN Recorded(action, grafana, mappings, l.userIDs, l.teamIDs, canFail)
              ELSE IF err # {}
              THEN IF isExternallySyncedUserErr(err)
                   THEN {Outcome(grafana, mappings, <<>>, l.userIDs, l.teamIDs,
                                 "skip", "", 0)}
                   ELSE {Abort(l, "update user role failed", 0)}
              ELSE Recorded(action,
                            UpdateUserRole(action.GrafanaOrgID, id, action.Role),
                            mappings, l.userIDs, l.teamIDs, canFail)
                   \cup (IF canFail
                         THEN {Abort(l, "update user role failed", 1)}
                         ELSE {}))

ApplyAddUserToTeam(action, l, canFail) ==
    LET teamID == ResolveTeamID(action, l)
        id == ResolvedUserID(action, l, TRUE)
    IN  IF MissingTeamID(teamID) THEN {Abort(l, "missing team id", 0)}
        ELSE LookupFails(action, l, TRUE, canFail)
             \cup (IF id = 0
                   THEN Recorded(action, grafana, mappings, l.userIDs, l.teamIDs,
                                 canFail)
                   ELSE IF teamID \notin grafana.teams
                   THEN {Abort(l, "add user to team: team not found", 0)}
                   ELSE IF AddUserToTeamStatus(teamID, id) >= 400
                           /\ ~ConflictTolerated(AddUserToTeamStatus(teamID, id))
                   THEN {Abort(l, "add user to team failed", 0)}
                   ELSE Recorded(action, AddUserToTeam(teamID, id, action.TeamRole),
                                 mappings, l.userIDs, l.teamIDs, canFail)
                        \cup (IF canFail
                              THEN {Abort(l, "add user to team failed", 1)}
                              ELSE {}))

ApplyUpdateTeamRole(action, l, canFail) ==
    LET teamID == ResolveTeamID(action, l)
        id == ResolvedUserID(action, l, FALSE)
    IN  IF MissingTeamID(teamID) THEN {Abort(l, "missing team id", 0)}
        ELSE LookupFails(action, l, FALSE, canFail)
             \cup (IF id = 0
                   THEN Recorded(action, grafana, mappings, l.userIDs, l.teamIDs,
                                 canFail)
                   ELSE Recorded(action,
                                 UpdateTeamMemberRole(teamID, id, action.TeamRole),
                                 mappings, l.userIDs, l.teamIDs, canFail)
                        \cup (IF canFail
                              THEN {Abort(l, "update team role failed", 1)}
                              ELSE {}))

ApplyRemoveUserFromTeam(action, l, canFail) ==
    LET teamID == ResolveTeamID(action, l)
        id == ResolvedUserID(action, l, FALSE)
    IN  IF MissingTeamID(teamID) THEN {Abort(l, "missing team id", 0)}
        ELSE LookupFails(action, l, FALSE, canFail)
             \cup (IF id = 0
                   THEN Recorded(action, grafana, mappings, l.userIDs, l.teamIDs,
                                 canFail)
                   ELSE IF RemoveUserFromTeamStatus(teamID, id) >= 400
                           /\ ~NotFoundTolerated(RemoveUserFromTeamStatus(teamID, id))
                   THEN {Abort(l, "remove user from team failed", 0)}
                   ELSE Recorded(action, RemoveUserFromTeam(teamID, id),
                                 mappings, l.userIDs, l.teamIDs, canFail)
                        \cup (IF canFail
                              THEN {Abort(l, "remove user from team failed", 1)}
                              ELSE {}))

\* the switch of ApplyPlan: every way one action can end
ApplyAction(action, l, canFail) ==
    CASE action.ActionType = "create_team" -> ApplyCreateTeam(action, l, canFail)
      [] action.ActionType = "create_user" -> ApplyCreateUser(action, l, canFail)
      [] action.ActionType = "add_user_to_org" -> ApplyAddUserToOrg(action, l, canFail)
      [] action.ActionType = "update_user_role" ->
            ApplyUpdateUserRole(action, l, canFail)
      [] action.ActionType = "add_user_to_team" ->
            ApplyAddUserToTeam(action, l, canFail)
      [] action.ActionType = "update_team_role" ->
            ApplyUpdateTeamRole(action, l, canFail)
      [] action.ActionType = "remove_user_from_team" ->
            ApplyRemoveUserFromTeam(action, l, canFail)
      [] OTHER -> {Outcome(grafana, mappings, <<>>, l.userIDs, l.teamIDs,
                           "default", "", 0)}


(***************************************************************************)
(* Goroutines: the scheduler of main and the handlers of the web server.   *)
(***************************************************************************)
Scheduler == "sched"
Handlers == {"h1", "h2"}
Procs == {Scheduler} \cup Handlers
HandlerOps == {"preview", "run", "apply", "apply-selected", "clear"}

\* a faulty filter: every kind can be selected
isSelectableActionAny(actionType) == TRUE

isSelectableAction(actionType) == actionType # "blocked_create_user"

InitLoc ==
    [op |-> "", ids |-> {}, planID |-> 0, actions |-> <<>>, fail |-> {},
     input |-> <<>>, order |-> <<>>, i |-> 1,
     userIDs |-> [e \in Emails |-> 0], teamIDs |-> [k \in TeamKeys |-> 0],
     done |-> <<>>, skipped |-> {}, err |-> "", prev |-> "", resp |-> ""]

CanFail == failures < MaxFailures

\* the collaborator calls one BuildPlan can make
FailPoints ==
    LET M == 1..Len(mappings)
        gorg(mi) == GrafanaOrgIDOf(mappings[mi].OrgID)
    IN  {<<"SearchTeam", mi>> : mi \in {k \in M : mappings[k].GrafanaTeamID = 0}}
        \cup {<<"ListGroupMembers", mi>> : mi \in M}
        \cup {<<"ListTeamMembers", mi>> :
                 mi \in {k \in M : \/ mappings[k].GrafanaTeamID # 0
                                   \/ SearchTeam(gorg(k),
                                          mappings[k].GrafanaTeamName) # 0}}
        \cup UNION {{<<"LookupUser", mi, e>> :
                        e \in WantOf(mappings[mi].ExternalGroupID)} : mi \in M}
        \cup {<<"ListOrgUsers", orgs[k].ID>> : k \in 1..Len(orgs)}

RECURSIVE FailChoices(_)
FailChoices(n) ==
    IF n = 0 THEN {{}}
    ELSE LET fewer == FailChoices(n - 1)
         IN  fewer \cup {F \cup {x} : F \in fewer, x \in FailPoints}

Orderings(S) ==
    {s \in [1..Cardinality(S) -> S] : \A i, j \in DOMAIN s : s[i] = s[j] => i = j}
MapOrders == [emails : Orderings(Emails), orgs : Orderings(OrgIDs)]

\* a faulty loop of main: it ends when Run returns an error
TickUnlessFailed(p) ==
    /\ p = Scheduler
    /\ pc[p] = "idle"
    /\ loc[p].resp # "error"
    /\ cycles < MaxCycles
    /\ pc' = [pc EXCEPT ![p] = "build"]
    /\ loc' = [loc EXCEPT ![p].op = "scheduled", ![p].resp = ""]
    /\ cycles' = cycles + 1
    /\ UNCHANGED <<uiVars, cfg, orgs, mappings, entra, grafana, plan, nextID, syncActions,
                   lastRun, failures>>

\* the scheduler goroutine of main: Run, then wait for the ticker
Tick(p) ==
    /\ p = Scheduler
    /\ pc[p] = "idle"
    /\ cycles < MaxCycles
    /\ pc' = [pc EXCEPT ![p] = "build"]
    /\ loc' = [loc EXCEPT ![p].op = "scheduled", ![p].resp = ""]
    /\ cycles' = cycles + 1
    /\ UNCHANGED <<uiVars, cfg, orgs, mappings, entra, grafana, plan, nextID, syncActions,
                   lastRun, failures>>

\* the *Plan store.LatestPlan returns: the row of plans with the greatest
\* id and the rows of plan_actions with its plan_id, by id
Latest ==
    IF plan.plans = {} THEN NoPlan
    ELSE LET row == CHOOSE r \in plan.plans : \A q \in plan.plans : q.ID <= r.ID
         IN  [ID |-> row.ID, Status |-> row.Status,
              Actions |-> SelectSeq(plan.plan_actions,
                                    LAMBDA a : a.PlanID = row.ID)]

\* an HTTP POST reaches one of the plan handlers
Request(p, op) ==
    /\ p \in Handlers
    /\ pc[p] = "idle"
    /\ cycles < MaxCycles
    /\ \E ids \in IF op = "apply-selected"
                  THEN SUBSET {Latest.Actions[k].ID :
                                  k \in 1..Len(Latest.Actions)} \ {{}}
                  ELSE {{}} :
          loc' = [loc EXCEPT ![p].op = op, ![p].ids = ids, ![p].resp = ""]
    /\ pc' = [pc EXCEPT ![p] = CASE op \in {"preview", "run"} -> "build"
                                 [] op \in {"apply", "apply-selected"} -> "load"
                                 [] OTHER -> "clear"]
    /\ cycles' = cycles + 1
    /\ UNCHANGED <<uiVars, cfg, orgs, mappings, entra, grafana, plan, nextID, syncActions,
                   lastRun, failures>>

\* the locals of a goroutine whose call has returned; prev tells how its
\* last ApplyPlan ended
Returned(l) == [InitLoc EXCEPT !.prev = l.prev]

\* ... and what the caller got: "redirect" for http.Redirect, the message of
\* http.Error, "nil" or "error" for the error Run returns to main
Responded(l, resp) == [Returned(l) EXCEPT !.resp = resp]

\* plan, err := s.BuildPlan() with err == nil
Build(p) ==
    /\ pc[p] = "build"
    /\ \E fail \in FailChoices(MaxFailures - failures), ord \in MapOrders :
          /\ loc' = [loc EXCEPT ![p].actions = BuildPlan(fail, ord).Actions,
                                ![p].fail = fail, ![p].planID = 0]
          /\ failures' = failures + Cardinality(fail)
    /\ pc' = [pc EXCEPT ![p] = IF loc[p].op = "scheduled" THEN "enter" ELSE "replace"]
    /\ UNCHANGED <<uiVars, cfg, orgs, mappings, entra, grafana, plan, nextID, syncActions,
                   lastRun, cycles>>

\* BuildPlan returns the error of ListOrgs or ListMappings
BuildError(p) ==
    /\ pc[p] = "build"
    /\ CanFail
    /\ failures' = failures + 1
    /\ IF loc[p].op = "scheduled"
       THEN /\ loc' = [loc EXCEPT ![p].err = "list failed"]
            /\ pc' = [pc EXCEPT ![p] = "finish"]
       ELSE /\ loc' = [loc EXCEPT ![p] = Responded(@, "failed to build plan")]
            /\ pc' = [pc EXCEPT ![p] = "idle"]
    /\ UNCHANGED <<uiVars, cfg, orgs, mappings, entra, grafana, plan, nextID, syncActions,
                   lastRun, cycles>>

\* the rows store.ReplacePlan inserts for the actions of a plan
WithIDs(actions, first, planID) ==
    [k \in 1..Len(actions) |->
        [actions[k] EXCEPT !.ID = first + k - 1, !.PlanID = planID]]

\* a faulty transaction: the rows of the previous plan are not deleted
ReplacedTablesKeepOld(tables, actions) ==
    [plans |-> tables.plans \cup {[ID |-> nextID.plans, Status |-> "planned"]},
     plan_actions |-> tables.plan_actions
                        \o WithIDs(actions, nextID.plan_actions, nextID.plans)]

\* a faulty numbering: the rows of every plan are numbered from 1, as a
\* table without AUTOINCREMENT numbers them once it has been emptied
ReplacedTablesFromOne(tables, actions) ==
    [plans |-> {[ID |-> nextID.plans, Status |-> "planned"]},
     plan_actions |-> WithIDs(actions, 1, nextID.plans)]

\* the committed transaction of store.ReplacePlan: DELETE FROM plan_actions,
\* DELETE FROM plans, INSERT the plan, INSERT its actions
ReplacedTables(tables, actions) ==
    [plans |-> {[ID |-> nextID.plans, Status |-> "planned"]},
     plan_actions |-> WithIDs(actions, nextID.plan_actions, nextID.plans)]

\* a faulty preview: having stored the plan it goes on to apply it, as
\* handleRun does
ReplacePlanThenApply(p) ==
    /\ pc[p] = "replace"
    /\ \/ /\ plan' = ReplacedTables(plan, loc[p].actions)
          /\ nextID' = [plans |-> nextID.plans + 1,
                        plan_actions |-> nextID.plan_actions + Len(loc[p].actions)]
          /\ loc' = [loc EXCEPT ![p].planID = nextID.plans]
          /\ pc' = [pc EXCEPT ![p] = "status"]
          /\ UNCHANGED failures
       \/ /\ CanFail
          /\ failures' = failures + 1
          /\ pc' = [pc EXCEPT ![p] = "idle"]
          /\ loc' = [loc EXCEPT ![p] = Responded(@, "failed to store plan")]
          /\ UNCHANGED <<plan, nextID>>
    /\ UNCHANGED <<uiVars, cfg, orgs, mappings, entra, grafana, syncActions, lastRun, cycles>>

\* store.ReplacePlan in handlePreview and handleRun
ReplacePlan(p) ==
    /\ pc[p] = "replace"
    /\ \/ /\ plan' = ReplacedTables(plan, loc[p].actions)
          /\ nextID' = [plans |-> nextID.plans + 1,
                        plan_actions |-> nextID.plan_actions + Len(loc[p].actions)]
          /\ IF loc[p].op = "run"
             THEN /\ loc' = [loc EXCEPT ![p].planID = nextID.plans]
                  /\ pc' = [pc EXCEPT ![p] = "status"]
             ELSE /\ loc' = [loc EXCEPT ![p] = Responded(@, "redirect")]
                  /\ pc' = [pc EXCEPT ![p] = "idle"]
          /\ UNCHANGED failures
       \/ /\ CanFail
          /\ failures' = failures + 1
          /\ pc' = [pc EXCEPT ![p] = "idle"]
          /\ loc' = [loc EXCEPT ![p] = Responded(@, "failed to store plan")]
          /\ UNCHANGED <<plan, nextID>>
    /\ UNCHANGED <<uiVars, cfg, orgs, mappings, entra, grafana, syncActions, lastRun, cycles>>

\* the actions of the loaded plan the form of handleApplySelected selects
Selected(actions, ids) ==
    SelectSeq(actions, LAMBDA a : a.ID \in ids /\ isSelectableAction(a.ActionType))

\* store.LatestPlan in handleApply and handleApplySelected, and the checks
\* that follow it
LatestPlan(p) ==
    /\ pc[p] = "load"
    /\ \/ /\ Latest # NoPlan
          /\ LET todo == IF loc[p].op = "apply" THEN Latest.Actions
                         ELSE Selected(Latest.Actions, loc[p].ids)
             IN  IF loc[p].op = "apply-selected" /\ todo = <<>>
                 THEN /\ pc' = [pc EXCEPT ![p] = "idle"]
                      /\ loc' = [loc EXCEPT
                            ![p] = Responded(@, "no valid actions selected")]
                 ELSE /\ pc' = [pc EXCEPT ![p] = "status"]
                      /\ loc' = [loc EXCEPT ![p].actions = todo,
                                            ![p].planID = Latest.ID]
          /\ UNCHANGED failures
       \/ /\ Latest = NoPlan
          /\ pc' = [pc EXCEPT ![p] = "idle"]
          /\ loc' = [loc EXCEPT ![p] = Responded(@, "no plan available")]
          /\ UNCHANGED failures
       \/ /\ CanFail
          /\ failures' = failures + 1
          /\ pc' = [pc EXCEPT ![p] = "idle"]
          /\ loc' = [loc EXCEPT ![p] = Responded(@, "failed to load plan")]
    /\ UNCHANGED <<uiVars, cfg, orgs, mappings, entra, grafana, plan, nextID, syncActions,
                   lastRun, cycles>>

\* store.UpdatePlanStatus: UPDATE plans SET status = ? WHERE id = ?
UpdatePlanStatus(planID, status) ==
    [plan EXCEPT !.plans = {IF r.ID = planID THEN [r EXCEPT !.Status = status]
                            ELSE r : r \in @}]

\* UpdatePlanStatus(planID, "applying" | "applying-selected"), error only logged
MarkApplying(p) ==
    /\ pc[p] = "status"
    /\ \/ /\ plan' = UpdatePlanStatus(loc[p].planID,
                        IF loc[p].op = "apply-selected" THEN "applying-selected"
                        ELSE "applying")
          /\ UNCHANGED failures
       \/ /\ CanFail
          /\ failures' = failures + 1
          /\ UNCHANGED plan
    /\ pc' = [pc EXCEPT ![p] = "enter"]
    /\ UNCHANGED <<uiVars, cfg, orgs, mappings, entra, grafana, nextID, syncActions, loc,
                   lastRun, cycles>>

\* the head of ApplyPlan: the empty list returns nil, otherwise sortActions
\* and the two resolution maps
ApplyEnter(p) ==
    /\ pc[p] = "enter"
    /\ IF loc[p].actions = <<>>
       THEN /\ loc' = [loc EXCEPT ![p].input = <<>>, ![p].order = <<>>, ![p].i = 1,
                                  ![p].done = <<>>, ![p].skipped = {},
                                  ![p].err = "ok"]
            /\ pc' = [pc EXCEPT ![p] = "finish"]
       ELSE /\ loc' = [loc EXCEPT ![p].input = loc[p].actions,
                                  ![p].order = sortActions(loc[p].actions),
                                  ![p].i = 1,
                                  ![p].userIDs = InitLoc.userIDs,
                                  ![p].teamIDs = InitLoc.teamIDs,
                                  ![p].done = <<>>, ![p].skipped = {},
                                  ![p].err = ""]
            /\ pc' = [pc EXCEPT ![p] = "apply"]
    /\ UNCHANGED <<uiVars, cfg, orgs, mappings, entra, grafana, plan, nextID, syncActions,
                   lastRun, failures, cycles>>

\* one iteration of `for _, action := range actions` in ApplyPlan
ApplyStep(p) ==
    /\ pc[p] = "apply"
    /\ LET l == loc[p]
           k == l.order[l.i]
       IN  \E out \in ApplyAction(l.input[k], l, CanFail) :
              /\ grafana' = out.grafana
              /\ mappings' = out.mappings
              /\ syncActions' = syncActions \o out.audit
              /\ failures' = failures + out.failed
              /\ LET last == out.res = "abort" \/ l.i = Len(l.order)
                 IN  /\ loc' = [loc EXCEPT
                            ![p].userIDs = out.userIDs,
                            ![p].teamIDs = out.teamIDs,
                            ![p].i = l.i + 1,
                            ![p].done = IF out.res = "ok" THEN Append(@, k) ELSE @,
                            ![p].skipped = IF out.res = "skip" THEN @ \cup {k} ELSE @,
                            ![p].err = IF out.res = "abort" THEN out.err
                                       ELSE IF last THEN "ok" ELSE ""]
                     /\ pc' = [pc EXCEPT ![p] = IF last THEN "finish" ELSE "apply"]
    /\ UNCHANGED <<uiVars, cfg, orgs, entra, plan, nextID, cycles, lastRun>>

\* Syncer.finish in Run, Syncer.RecordRun in the handlers
RecordRun(p) ==
    /\ pc[p] = "finish"
    /\ lastRun' = [n |-> lastRun.n + 1,
                   msg |-> IF loc[p].err = "ok" THEN "ok" ELSE loc[p].err]
    /\ LET prev == IF loc[p].err = "ok" /\ loc[p].skipped = {}
                    THEN "complete" ELSE "incomplete"
       IN  IF loc[p].op = "scheduled"
           THEN /\ pc' = [pc EXCEPT ![p] = "idle"]
                /\ loc' = [loc EXCEPT ![p] =
                              [InitLoc EXCEPT
                                  !.prev = prev,
                                  !.resp = IF loc[p].err = "ok" THEN "nil"
                                           ELSE "error"]]
           ELSE /\ pc' = [pc EXCEPT ![p] = "final"]
                /\ loc' = [loc EXCEPT ![p].prev = prev]
    /\ UNCHANGED <<uiVars, cfg, orgs, mappings, entra, grafana, plan, nextID, syncActions,
                   failures, cycles>>

\* _ = s.store.UpdatePlanStatus(planID, "failed" | "applied" | "applied-selected")
FinalStatus(p) ==
    /\ pc[p] = "final"
    /\ \/ /\ plan' = UpdatePlanStatus(loc[p].planID,
                        IF loc[p].err # "ok" THEN "failed"
                        ELSE IF loc[p].op = "apply-selected" THEN "applied-selected"
                        ELSE "applied")
          /\ UNCHANGED failures
       \/ /\ CanFail
          /\ failures' = failures + 1
          /\ UNCHANGED plan
    /\ pc' = [pc EXCEPT ![p] = "idle"]
    /\ loc' = [loc EXCEPT ![p] = Responded(@, IF loc[p].err # "ok"
                                              THEN "apply failed"
                                              ELSE "redirect")]
    /\ UNCHANGED <<uiVars, cfg, orgs, mappings, entra, grafana, nextID, syncActions,
                   lastRun, cycles>>

\* store.ClearPlan in handleClearPlan
ClearPlan(p) ==
    /\ pc[p] = "clear"
    /\ \/ /\ plan' = EmptyTables
          /\ loc' = [loc EXCEPT ![p] = Responded(@, "redirect")]
          /\ UNCHANGED failures
       \/ /\ CanFail
          /\ failures' = failures + 1
          /\ loc' = [loc EXCEPT ![p] = Responded(@, "failed to clear plan")]
          /\ UNCHANGED plan
    /\ pc' = [pc EXCEPT ![p] = "idle"]
    /\ UNCHANGED <<uiVars, cfg, orgs, mappings, entra, grafana, nextID, syncActions,
                   lastRun, cycles>>


(***************************************************************************)
(* Initial states.                                                         *)
(***************************************************************************)
Org(id, defaultRole) ==
    [ID |-> id, GrafanaOrgID |-> GrafanaOrgIDOf(id), DefaultRole |-> defaultRole]

Mapping(orgID, teamName, teamID, group, teamRole, roleOverride) ==
    [OrgID |-> orgID, GrafanaTeamName |-> teamName, GrafanaTeamID |-> teamID,
     ExternalGroupID |-> group, TeamRole |-> teamRole, RoleOverride |-> roleOverride]

NoMembers == [t \in TeamIDs |-> [e \in Emails |-> ""]]
NoOrgUsers == [g \in GrafanaOrgIDs |-> [e \in Emails |-> ""]]

(***************************************************************************)
(* The cache of external state the pages are rendered from.  It is         *)
(* refreshed by refreshLoop, by handleFetch, by a page render that finds   *)
(* it empty, and by the goroutine a page render starts when it finds it    *)
(* stale.  A goroutine is idle, at the entry of refreshExternalData        *)
(* ("enter"), between its statements ("listOrgs", "listMappings", "load",  *)
(* "store"), or at one of its three returns ("skipped", "failed",          *)
(* "stored").                                                              *)
(***************************************************************************)
UIGoroutines == {"timer", "fetch", "page", "stale"}

\* the zero value of externalCache; its refreshedAt is the zero time
ZeroCache == [refreshedAt |-> 0, grafanaTeams |-> {}, grafanaUsers |-> {}]

InitUI == [g \in UIGoroutines |-> [pos |-> "idle", cache |-> ZeroCache]]

Returns == {"skipped", "failed", "stored"}

\* cache.refreshedAt.IsZero()
IsZero(t) == t = 0

\* time.Since(cache.refreshedAt) > 30*time.Second, one reading of the clock
\* being thirty seconds after the one before
Stale(t) == now - t > 1

\* the test of the guard, replaced by one that lets every caller through
RefreshInFlightNever(flag) == FALSE

\* if s.refresh { return }
RefreshInFlight(flag) == flag

\* time passes
Elapse ==
    /\ now < MaxClock
    /\ now' = now + 1
    /\ UNCHANGED <<cfg, orgs, mappings, entra, grafana, plan, nextID,
                   syncActions, pc, loc, lastRun, failures, cycles,
                   refresh, cache, ui>>

\* refreshLoop: call refreshExternalData, sleep, and again
refreshLoop(g) ==
    /\ g = "timer"
    /\ ui[g].pos \in {"idle"} \cup Returns
    /\ ui' = [ui EXCEPT ![g].pos = "enter"]
    /\ UNCHANGED <<cfg, orgs, mappings, entra, grafana, plan, nextID,
                   syncActions, pc, loc, lastRun, failures, cycles,
                   refresh, cache, now>>

\* handleFetch: call refreshExternalData, then redirect
handleFetch(g) ==
    /\ g = "fetch"
    /\ \/ /\ ui[g].pos = "idle"
          /\ ui' = [ui EXCEPT ![g].pos = "enter"]
       \/ /\ ui[g].pos \in Returns
          /\ ui' = [ui EXCEPT ![g].pos = "idle"]
    /\ UNCHANGED <<cfg, orgs, mappings, entra, grafana, plan, nextID,
                   syncActions, pc, loc, lastRun, failures, cycles,
                   refresh, cache, now>>

\* getExternalData: read the cache; refresh it here when it is empty, start
\* a goroutine that refreshes it when it is stale
getExternalData(g) ==
    /\ g = "page"
    /\ ui[g].pos = "idle"
    /\ IF IsZero(cache.refreshedAt)
           THEN ui' = [ui EXCEPT ![g] = [pos |-> "enter", cache |-> cache]]
       ELSE IF Stale(cache.refreshedAt)
           THEN /\ ui["stale"].pos = "idle"
                /\ ui' = [ui EXCEPT ![g].cache = cache,
                                    !["stale"].pos = "enter"]
       ELSE ui' = [ui EXCEPT ![g].cache = cache]
    /\ UNCHANGED <<cfg, orgs, mappings, entra, grafana, plan, nextID,
                   syncActions, pc, loc, lastRun, failures, cycles,
                   refresh, cache, now>>

\* getExternalData after its call of refreshExternalData: read the cache
\* again and return it
getExternalDataReread(g) ==
    /\ g = "page"
    /\ ui[g].pos \in Returns
    /\ ui' = [ui EXCEPT ![g] = [pos |-> "idle", cache |-> cache]]
    /\ UNCHANGED <<cfg, orgs, mappings, entra, grafana, plan, nextID,
                   syncActions, pc, loc, lastRun, failures, cycles,
                   refresh, cache, now>>

\* the goroutine of "go s.refreshExternalData()" ends
refreshDone(g) ==
    /\ g = "stale"
    /\ ui[g].pos \in Returns
    /\ ui' = [ui EXCEPT ![g].pos = "idle"]
    /\ UNCHANGED <<cfg, orgs, mappings, entra, grafana, plan, nextID,
                   syncActions, pc, loc, lastRun, failures, cycles,
                   refresh, cache, now>>

\* refreshExternalData, its guard: under cacheMu, return if a refresh is in
\* flight, else raise the flag
refreshExternalData(g) ==
    /\ ui[g].pos = "enter"
    /\ IF RefreshInFlight(refresh)
           THEN /\ ui' = [ui EXCEPT ![g].pos = "skipped"]
                /\ UNCHANGED refresh
           ELSE /\ refresh' = TRUE
                /\ ui' = [ui EXCEPT ![g].pos = "listOrgs"]
    /\ UNCHANGED <<cfg, orgs, mappings, entra, grafana, plan, nextID,
                   syncActions, pc, loc, lastRun, failures, cycles,
                   cache, now>>

\* a faulty failure path: the error returns with the flag still raised
refreshListHolding(g) ==
    /\ ui[g].pos \in {"listOrgs", "listMappings"}
    /\ \/ /\ ui' = [ui EXCEPT ![g].pos =
                       IF ui[g].pos = "listOrgs" THEN "listMappings" ELSE "load"]
          /\ UNCHANGED <<refresh, failures>>
       \/ /\ failures < MaxFailures
          /\ failures' = failures + 1
          /\ UNCHANGED refresh
          /\ ui' = [ui EXCEPT ![g].pos = "failed"]
    /\ UNCHANGED <<cfg, orgs, mappings, entra, grafana, plan, nextID,
                   syncActions, pc, loc, lastRun, cycles, cache, now>>

\* refreshExternalData, ListOrgs and ListMappings: an error lowers the flag
\* and returns, the cache as it was
refreshList(g) ==
    /\ ui[g].pos \in {"listOrgs", "listMappings"}
    /\ \/ /\ ui' = [ui EXCEPT ![g].pos =
                       IF ui[g].pos = "listOrgs" THEN "listMappings" ELSE "load"]
          /\ UNCHANGED <<refresh, failures>>
       \/ /\ failures < MaxFailures
          /\ failures' = failures + 1
          /\ refresh' = FALSE
          /\ ui' = [ui EXCEPT ![g].pos = "failed"]
    /\ UNCHANGED <<cfg, orgs, mappings, entra, grafana, plan, nextID,
                   syncActions, pc, loc, lastRun, cycles, cache, now>>

\* refreshExternalData, the fetch: a cache stamped with the time and filled
\* by the loaders
refreshLoad(g) ==
    /\ ui[g].pos = "load"
    /\ ui' = [ui EXCEPT ![g] = [pos |-> "store",
                                cache |-> [refreshedAt |-> now,
                                           grafanaTeams |-> grafana.teams,
                                           grafanaUsers |-> grafana.users]]]
    /\ UNCHANGED <<cfg, orgs, mappings, entra, grafana, plan, nextID,
                   syncActions, pc, loc, lastRun, failures, cycles,
                   refresh, cache, now>>

\* refreshExternalData, its end: under cacheMu, store the cache and lower
\* the flag
refreshStore(g) ==
    /\ ui[g].pos = "store"
    /\ cache' = ui[g].cache
    /\ refresh' = FALSE
    /\ ui' = [ui EXCEPT ![g].pos = "stored"]
    /\ UNCHANGED <<cfg, orgs, mappings, entra, grafana, plan, nextID,
                   syncActions, pc, loc, lastRun, failures, cycles, now>>

\* what is the same in every initial state
InitCommon ==
    /\ plan = EmptyTables
    /\ nextID = [plans |-> 1, plan_actions |-> 1]
    /\ syncActions = <<>>
    /\ pc = [p \in Procs |-> "idle"]
    /\ loc = [p \in Procs |-> InitLoc]
    /\ lastRun = [n |-> 0, msg |-> ""]
    /\ failures = 0
    /\ cycles = 0
    /\ refresh = FALSE
    /\ cache = ZeroCache
    /\ ui = InitUI
    /\ now = 1

\* one org, one mapping whose team and user are still to be created
Init ==
    /\ InitCommon
    /\ cfg = [defaultUserRole |-> "Viewer", allowCreateUsers |-> TRUE,
              allowRemoveUsers |-> TRUE]
    /\ orgs = <<Org(1, "Viewer")>>
    /\ mappings = <<Mapping(1, "ops", 0, "g1", "member", "")>>
    /\ entra = [g \in Groups |-> IF g = "g1" THEN {"alice"} ELSE {}]
    /\ grafana = [users |-> {}, teams |-> {}, teamMembers |-> NoMembers,
                  orgUsers |-> NoOrgUsers, externallySynced |-> {}]

Next ==
    \E p \in Procs :
        \/ Tick(p)
        \/ \E op \in HandlerOps : Request(p, op)
        \/ Build(p)
        \/ BuildError(p)
        \/ ReplacePlan(p)
        \/ LatestPlan(p)
        \/ MarkApplying(p)
        \/ ApplyEnter(p)
        \/ ApplyStep(p)
        \/ RecordRun(p)
        \/ FinalStatus(p)
        \/ ClearPlan(p)

Spec == Init /\ [][Next]_vars


(***************************************************************************)
(* The engine alone: the scheduler runs its cycles from every              *)
(* configuration of a small universe.                                      *)
(***************************************************************************)
\* the mappings an administrator may have entered at position mi.  The
\* mappings at odd positions have the id of their team cached when the team
\* exists, the others have not resolved it yet.
MappingChoices(mi, teams) ==
    LET Cached(orgID, name) ==
            IF mi % 2 = 1 /\ TeamIDOf(GrafanaOrgIDOf(orgID), name) \in teams
            THEN TeamIDOf(GrafanaOrgIDOf(orgID), name) ELSE 0
    IN  CASE mi = 1 ->
               {Mapping(1, "ops", Cached(1, "ops"), "g1", r[1], r[2]) :
                   r \in {<<"member", "">>, <<"admin", "Admin">>}}
          [] mi = 2 ->
               {Mapping(1, "ops", Cached(1, "ops"), "g2", "member", "Editor"),
                Mapping(1, "Ops", Cached(1, "Ops"), "g2", "admin", ""),
                Mapping(1, "dev", Cached(1, "dev"), "g2", "member", "Editor"),
                Mapping(2, "ops", Cached(2, "ops"), "g2", "admin", "")}
          [] OTHER -> {Mapping(1, "ops", Cached(1, "ops"), "g1", "admin", "Admin")}

RECURSIVE MappingLists(_, _)
MappingLists(n, teams) ==
    IF n = 0 THEN {<<>>}
    ELSE {Append(ms, m) : ms \in MappingLists(n - 1, teams),
                          m \in MappingChoices(n, teams)}

\* the platform with bob an org Viewer (and a team Member where teams exist)
\* and alice, if she has an account, holding the given team and org role;
\* where her org role is "viewer" an external directory manages it
Platform(users, teams, aliceTeam, aliceOrg) ==
    [users |-> users, teams |-> teams,
     teamMembers |-> [NoMembers EXCEPT
         ![TeamIDOf(11, "ops")] = [e \in Emails |->
             IF e = "alice" THEN aliceTeam
             ELSE IF teams # {} THEN "Member" ELSE ""]],
     orgUsers |-> [NoOrgUsers EXCEPT
         ![11] = [e \in Emails |-> IF e = "alice" THEN aliceOrg ELSE "Viewer"]],
     externallySynced |-> IF aliceOrg = "viewer" THEN {"alice"} ELSE {}]

\* a platform without teams where alice has no account, with user creation
\* allowed or not; a platform with all teams where she has one
Scenarios ==
    {[create |-> c, remove |-> TRUE, grafana |-> Platform({"bob"}, {}, "", "")] :
        c \in BOOLEAN}
    \cup {[create |-> TRUE, remove |-> r,
           grafana |-> Platform({"alice", "bob"}, TeamIDs, a[1], a[2])] :
             r \in BOOLEAN,
             a \in {<<"", "">>, <<"Member", "viewer">>, <<"Admin", "Admin">>}}

\* the configurations of a set of scenarios: the directory, the settings, the
\* mappings and the platform
InitOver(scenarios) ==
    /\ InitCommon
    /\ orgs = <<Org(1, "Viewer"), Org(2, "")>>
    /\ entra \in {[g \in Groups |-> IF g = "g1" THEN m[1] ELSE m[2]] :
                    m \in {<<{" Alice", "bob"}, {"alice"}>>,
                           <<{" Alice"}, {"bob", ""}>>}}
    /\ \E sc \in scenarios, n \in 1..MaxMappings :
          /\ cfg = [defaultUserRole |-> "Editor", allowCreateUsers |-> sc.create,
                    allowRemoveUsers |-> sc.remove]
          /\ mappings \in MappingLists(n, sc.grafana.teams)
          /\ grafana = sc.grafana

InitPlan == InitOver(Scenarios)

NextPlan ==
    \E p \in {Scheduler} :
        \/ Tick(p)
        \/ Build(p)
        \/ BuildError(p)
        \/ ApplyEnter(p)
        \/ ApplyStep(p)
        \/ RecordRun(p)

SpecPlan == InitPlan /\ [][NextPlan]_vars

(***************************************************************************)
(* The plan builder alone: the cycle of the scheduler up to the return of  *)
(* BuildPlan.                                                              *)
(***************************************************************************)
\* the scenarios above, and a platform with all teams where alice has no
\* account, user creation allowed and removal disabled
InitBuild ==
    InitOver(Scenarios
             \cup {[create |-> TRUE, remove |-> FALSE,
                    grafana |-> Platform({"bob"}, TeamIDs, "", "")]})

NextBuild ==
    \E p \in {Scheduler} :
        \/ Tick(p)
        \/ Build(p)
        \/ BuildError(p)
        \/ RecordRun(p)

SpecBuild == InitBuild /\ [][NextBuild]_vars

(***************************************************************************)
(* The web server alone: two handlers serve the plan requests, the         *)
(* scheduler is off (SYNC_INTERVAL = 0).                                   *)
(***************************************************************************)
\* one org, one mapping into an existing team, alice has an account and is
\* no member of the team yet; where user creation is allowed she is no
\* member of the org either, where it is disabled she is one and the group
\* also holds bob, who has no account
InitWeb ==
    /\ InitCommon
    /\ \E create \in BOOLEAN :
          /\ cfg = [defaultUserRole |-> "Viewer", allowCreateUsers |-> create,
                    allowRemoveUsers |-> TRUE]
          /\ entra = [g \in Groups |-> IF g # "g1" THEN {}
                                       ELSE IF create THEN {"alice"}
                                       ELSE {"alice", "bob"}]
          /\ grafana = [users |-> {"alice"}, teams |-> {TeamIDOf(11, "ops")},
                        teamMembers |-> NoMembers,
                        orgUsers |-> IF create THEN NoOrgUsers
                                     ELSE [NoOrgUsers EXCEPT ![11]["alice"] = "Viewer"],
                        externallySynced |-> {}]
    /\ orgs = <<Org(1, "Viewer")>>
    /\ mappings = <<Mapping(1, "ops", TeamIDOf(11, "ops"), "g1", "member", "")>>

NextWeb ==
    \E p \in Handlers :
        \/ \E op \in HandlerOps : Request(p, op)
        \/ Build(p)
        \/ BuildError(p)
        \/ ReplacePlan(p)
        \/ LatestPlan(p)
        \/ MarkApplying(p)
        \/ ApplyEnter(p)
        \/ ApplyStep(p)
        \/ RecordRun(p)
        \/ FinalStatus(p)
        \/ ClearPlan(p)

SpecWeb == InitWeb /\ [][NextWeb]_vars

(***************************************************************************)
(* The web server after a preview: the plan of the preview is stored, the  *)
(* two handlers serve the requests that follow.                            *)
(***************************************************************************)
\* one org, one mapping into an existing team, alice has an account and is
\* no member of the team or the org; the store holds the plan a preview
\* built from that state, its rows numbered from 1
InitStored ==
    /\ cfg = [defaultUserRole |-> "Viewer", allowCreateUsers |-> TRUE,
              allowRemoveUsers |-> TRUE]
    /\ orgs = <<Org(1, "Viewer")>>
    /\ mappings = <<Mapping(1, "ops", TeamIDOf(11, "ops"), "g1", "member", "")>>
    /\ entra = [g \in Groups |-> IF g = "g1" THEN {"alice"} ELSE {}]
    /\ grafana = [users |-> {"alice"}, teams |-> {TeamIDOf(11, "ops")},
                  teamMembers |-> NoMembers, orgUsers |-> NoOrgUsers,
                  externallySynced |-> {}]
    /\ LET actions == BuildPlan({}, CHOOSE ord \in MapOrders : TRUE).Actions
       IN  /\ plan = [plans |-> {[ID |-> 1, Status |-> "planned"]},
                      plan_actions |-> WithIDs(actions, 1, 1)]
           /\ nextID = [plans |-> 2, plan_actions |-> Len(actions) + 1]
    /\ syncActions = <<>>
    /\ pc = [p \in Procs |-> "idle"]
    /\ loc = [p \in Procs |-> InitLoc]
    /\ lastRun = [n |-> 0, msg |-> ""]
    /\ failures = 0
    /\ cycles = 0
    /\ refresh = FALSE
    /\ cache = ZeroCache
    /\ ui = InitUI
    /\ now = 1

SpecStored == InitStored /\ [][NextWeb]_vars

(***************************************************************************)
(* One handler alone: the plan requests are served one after another.      *)
(***************************************************************************)
\* one org, one mapping.  Either the group holds alice and bob, the team
\* and the account of alice are still to be created and bob is a member of
\* the org; or the group holds alice, who has an account, and the platform
\* holds the team with bob a member; or the platform lists alice as a
\* member of the team under a spelling its user lookup does not match, so
\* that LookupUser finds no account for the e-mail of the directory
InitSerial ==
    /\ InitCommon
    /\ cfg = [defaultUserRole |-> "Viewer", allowCreateUsers |-> TRUE,
              allowRemoveUsers |-> TRUE]
    /\ orgs = <<Org(1, "Viewer")>>
    /\ \/ /\ mappings = <<Mapping(1, "Ops", 0, "g1", "member", "")>>
          /\ entra = [g \in Groups |-> IF g = "g1" THEN {"alice", "bob"} ELSE {}]
          /\ grafana = [users |-> {"bob"}, teams |-> {}, teamMembers |-> NoMembers,
                        orgUsers |-> [NoOrgUsers EXCEPT ![11]["bob"] = "Viewer"],
                        externallySynced |-> {}]
       \/ /\ mappings = <<Mapping(1, "ops", TeamIDOf(11, "ops"), "g1", "member", "")>>
          /\ entra = [g \in Groups |-> IF g = "g1" THEN {"alice"} ELSE {}]
          /\ grafana = [users |-> {"alice", "bob"}, teams |-> {TeamIDOf(11, "ops")},
                        teamMembers |->
                            [NoMembers EXCEPT ![TeamIDOf(11, "ops")]["bob"] = "Member"],
                        orgUsers |-> NoOrgUsers, externallySynced |-> {}]
       \/ /\ mappings = <<Mapping(1, "ops", TeamIDOf(11, "ops"), "g1", "admin", "")>>
          /\ entra = [g \in Groups |-> IF g = "g1" THEN {"alice"} ELSE {}]
          /\ grafana = [users |-> {"bob"}, teams |-> {TeamIDOf(11, "ops")},
                        teamMembers |->
                            [NoMembers EXCEPT ![TeamIDOf(11, "ops")]["alice"] = "Member"],
                        orgUsers |-> NoOrgUsers, externallySynced |-> {}]

NextSerial ==
    \E p \in {"h1"} :
        \/ \E op \in HandlerOps : Request(p, op)
        \/ Build(p)
        \/ BuildError(p)
        \/ ReplacePlan(p)
        \/ LatestPlan(p)
        \/ MarkApplying(p)
        \/ ApplyEnter(p)
        \/ ApplyStep(p)
        \/ RecordRun(p)
        \/ FinalStatus(p)
        \/ ClearPlan(p)

SpecSerial == InitSerial /\ [][NextSerial]_vars

(***************************************************************************)
(* The goroutines of the UI alone: the timer, a fetch request, a page      *)
(* render and the goroutine it starts, over a platform that holds a team   *)
(* and two accounts.                                                       *)
(***************************************************************************)
InitCache ==
    /\ InitCommon
    /\ cfg = [defaultUserRole |-> "Viewer", allowCreateUsers |-> TRUE,
              allowRemoveUsers |-> TRUE]
    /\ orgs = <<Org(1, "Viewer")>>
    /\ mappings = <<Mapping(1, "ops", TeamIDOf(11, "ops"), "g1", "member", "")>>
    /\ entra = [g \in Groups |-> IF g = "g1" THEN {"alice"} ELSE {}]
    /\ grafana = [users |-> {"alice", "bob"}, teams |-> {TeamIDOf(11, "ops")},
                  teamMembers |-> NoMembers, orgUsers |-> NoOrgUsers,
                  externallySynced |-> {}]

NextCache ==
    \/ Elapse
    \/ \E g \in UIGoroutines :
        \/ refreshLoop(g)
        \/ handleFetch(g)
        \/ getExternalData(g)
        \/ getExternalDataReread(g)
        \/ refreshDone(g)
        \/ refreshExternalData(g)
        \/ refreshList(g)
        \/ refreshLoad(g)
        \/ refreshStore(g)

SpecCache == InitCache /\ [][NextCache]_vars

\* The same goroutines, each of which goes on once it is inside
\* refreshExternalData: the reads of the store return, and the calls of the
\* loaders end, with an answer or with the error of a client whose requests
\* time out.
SpecCacheFair ==
    /\ InitCache
    /\ [][NextCache]_vars
    /\ \A g \in UIGoroutines :
          /\ WF_vars(refreshList(g))
          /\ WF_vars(refreshLoad(g))
          /\ WF_vars(refreshStore(g))

(***************************************************************************)
(* Properties.  The plan of a scheduled cycle is inspected where BuildPlan *)
(* has returned it and ApplyPlan has not started.                          *)
(***************************************************************************)
Built == pc[Scheduler] = "enter"
BuiltPlan == loc[Scheduler].actions
FailedCalls == loc[Scheduler].fail
ExecutableTypes ==
    {"create_team", "create_user", "add_user_to_org", "update_user_role",
     "add_user_to_team", "update_team_role", "remove_user_from_team"}
MembershipTypes == ExecutableTypes \ {"create_team", "create_user"}
KindsOf(types, e) ==
    {k \in DOMAIN BuiltPlan :
        BuiltPlan[k].ActionType \in types /\ BuiltPlan[k].Email = e}

\* C1 (idempotence): when the previous cycle applied its whole plan without
\* an error or a skipped action, and no call has failed, the plan the next
\* BuildPlan returns holds no executable action.
C1_Idempotence ==
    (Built /\ loc[Scheduler].prev = "complete" /\ failures = 0)
        => \A k \in DOMAIN BuiltPlan :
              BuiltPlan[k].ActionType \notin ExecutableTypes

\* C2 (single cycle): no two goroutines are inside the loop of ApplyPlan at
\* the same time, whether started by the scheduler or by a run, apply or
\* apply-selected request.
CycleOps == {"scheduled", "run", "apply", "apply-selected"}
Executing(p) == loc[p].op \in CycleOps /\ pc[p] = "apply"
C2_SingleCycle == \A p, q \in Procs : (Executing(p) /\ Executing(q)) => p = q

\* the phase order as the specification lists it
ClaimedPhases ==
    <<"create_team", "create_user", "add_user_to_org", "update_user_role",
      "add_user_to_team", "update_team_role", "remove_user_from_team">>
PhaseRank(actionType) ==
    CHOOSE i \in 1..Len(ClaimedPhases) : ClaimedPhases[i] = actionType
Executed(p, a) == loc[p].input[loc[p].done[a]]

\* C3 (phase order): of two actions ApplyPlan has executed, the one executed
\* first is of no later phase, and if both are of the same phase it stood
\* first in the input list.
C3_PhaseOrder ==
    \A p \in Procs : \A a, b \in DOMAIN loc[p].done :
        a < b =>
            LET x == PhaseRank(Executed(p, a).ActionType)
                y == PhaseRank(Executed(p, b).ActionType)
            IN  x <= y /\ (x = y => loc[p].done[a] < loc[p].done[b])

\* a batch has ended well whose input list was not in phase order and held
\* two actions of one phase
C3_Witness ==
    LET l == loc[Scheduler]
    IN  /\ pc[Scheduler] = "finish" /\ l.err = "ok"
        /\ \E a, b \in DOMAIN l.done :
              /\ l.done[a] > l.done[b]
              /\ PhaseRank(Executed(Scheduler, a).ActionType)
                    < PhaseRank(Executed(Scheduler, b).ActionType)
        /\ \E a, b \in DOMAIN l.done :
              /\ a < b
              /\ Executed(Scheduler, a).ActionType = Executed(Scheduler, b).ActionType

\* C4 (deferred ids): executing the plan of BuildPlan never ends with
\* "missing team id", and no membership action of an e-mail is executed
\* before a create_user of that e-mail.
C4_TeamIDResolved ==
    LET l == loc[Scheduler]
    IN  /\ l.err # "missing team id"
        /\ \A a, b \in DOMAIN l.done :
              (a < b /\ Executed(Scheduler, b).ActionType = "create_user")
                 => ~ /\ Executed(Scheduler, a).ActionType \in MembershipTypes
                      /\ Executed(Scheduler, a).Email = Executed(Scheduler, b).Email

\* a batch has ended well in which a team membership whose payload had no
\* team id followed the creation of its team, and a membership followed the
\* creation of its user
C4_Witness ==
    LET l == loc[Scheduler]
    IN  /\ pc[Scheduler] = "finish" /\ l.err = "ok"
        /\ \E a, b \in DOMAIN l.done :
              /\ a < b
              /\ Executed(Scheduler, a).ActionType = "create_team"
              /\ Executed(Scheduler, b).ActionType = "add_user_to_team"
              /\ Executed(Scheduler, b).TeamID = 0
              /\ Executed(Scheduler, b).TeamName = Executed(Scheduler, a).TeamName
        /\ \E a, b \in DOMAIN l.done :
              /\ a < b
              /\ Executed(Scheduler, a).ActionType = "create_user"
              /\ Executed(Scheduler, b).ActionType \in MembershipTypes
              /\ Executed(Scheduler, b).Email = Executed(Scheduler, a).Email

\* C5 (blocked creation): with user creation disabled, every action of the
\* plan that names an e-mail without a platform account is a
\* blocked_create_user.
C5_BlockedOnly ==
    Built =>
        \A e \in Emails :
            (~cfg.allowCreateUsers /\ e \notin grafana.users)
                => \A k \in DOMAIN BuiltPlan :
                      BuiltPlan[k].Email = e
                         => BuiltPlan[k].ActionType = "blocked_create_user"

\* two mappings reach an e-mail without an account, creation is disabled,
\* and the plan holds a blocked_create_user for each
C5_Witness ==
    /\ Built /\ ~cfg.allowCreateUsers
    /\ \E e \in Emails \ grafana.users :
          Cardinality(KindsOf({"blocked_create_user"}, e)) >= 2

(***************************************************************************)
(* What the plan is compared with: the mappings, the directory and the     *)
(* platform themselves.                                                    *)
(***************************************************************************)
OrgPresent(o) == \E k \in DOMAIN orgs : orgs[k].ID = o
OrgRow(o) == orgs[CHOOSE k \in DOMAIN orgs : orgs[k].ID = o]
RoleRank(role) ==
    CASE role = "Viewer" -> 1
      [] role = "Editor" -> 2
      [] role = "Admin" -> 3
      [] OTHER -> 0
Strongest(R) == CHOOSE r \in R : \A q \in R : RoleRank(q) <= RoleRank(r)
FoldRole(role) ==
    CASE role \in {"Viewer", "viewer"} -> "viewer"
      [] role \in {"Editor", "editor"} -> "editor"
      [] role \in {"Admin", "admin"} -> "admin"
      [] OTHER -> role
NotBlocked(e) == e \in grafana.users \/ cfg.allowCreateUsers
InGroup(mi, e) == e \in WantOf(mappings[mi].ExternalGroupID)
Grants(mi, o, e) == mappings[mi].OrgID = o /\ OrgPresent(o) /\ InGroup(mi, e)
GrantedRoles(M) ==
    {MappingRole(mappings[mi], OrgRow(mappings[mi].OrgID)) : mi \in M}

\* the team id BuildPlan has for a mapping, given the calls that failed
TeamSeen(mi) ==
    IF mappings[mi].GrafanaTeamID # 0 THEN mappings[mi].GrafanaTeamID
    ELSE IF <<"SearchTeam", mi>> \in FailedCalls THEN 0
    ELSE SearchTeam(GrafanaOrgIDOf(mappings[mi].OrgID), mappings[mi].GrafanaTeamName)
\* the mapping was not skipped because of a failed collection call
Collected(mi) ==
    /\ OrgPresent(mappings[mi].OrgID)
    /\ <<"ListGroupMembers", mi>> \notin FailedCalls
    /\ \/ TeamSeen(mi) = 0
       \/ <<"ListTeamMembers", mi>> \notin FailedCalls
            /\ TeamSeen(mi) \in grafana.teams
\* the e-mail was looked up, for this mapping or an earlier one
LookedUp(mi, e) ==
    \E k \in 1..mi :
        Collected(k) /\ InGroup(k, e) /\ <<"LookupUser", k, e>> \notin FailedCalls
\* the mapping adds its role to the role accumulated for the e-mail
Accumulates(mi, e) ==
    Collected(mi) /\ InGroup(mi, e) /\ LookedUp(mi, e) /\ NotBlocked(e)

OrgKinds(o, e) ==
    {k \in KindsOf({"add_user_to_org", "update_user_role"}, e) :
        BuiltPlan[k].OrgID = o}
\* the platform holds one team for the names that differ only in case
SameTeamName(a, b) == a = b \/ {a, b} = {"ops", "Ops"}
TeamKinds(type, o, name, e) ==
    {k \in KindsOf({type}, e) :
        BuiltPlan[k].OrgID = o /\ SameTeamName(BuiltPlan[k].TeamName, name)}
IsTeamMember(o, name, e) ==
    LET t == SearchTeam(GrafanaOrgIDOf(o), name)
    IN  t # 0 /\ grafana.teamMembers[t][e] # ""

\* at most one org-level action for (o, e), with the strongest role of M
OrgRoleIs(o, e, M) ==
    /\ Cardinality(OrgKinds(o, e)) <= 1
    /\ \A k \in OrgKinds(o, e) :
          M # {} /\ BuiltPlan[k].Role = Strongest(GrantedRoles(M))

\* C6 as stated (org-role precedence): the one org-level action of an
\* (org, e-mail) carries the strongest role of all mappings of the org whose
\* group holds the user, blocked users aside.
C6_OrgRolePrecedence_AllMappings ==
    Built =>
        \A o \in OrgIDs, e \in Emails :
            NotBlocked(e)
               => OrgRoleIs(o, e, {mi \in DOMAIN mappings : Grants(mi, o, e)})

\* C6 amended: ... the strongest role of the mappings of the org whose group
\* holds the user and that were not skipped because a collection call
\* failed.
C6_OrgRolePrecedence ==
    Built =>
        \A o \in OrgIDs, e \in Emails :
            NotBlocked(e)
               => OrgRoleIs(o, e, {mi \in DOMAIN mappings :
                                      Grants(mi, o, e) /\ Accumulates(mi, e)})

\* no call failed, the first of two mappings of an org grants a user the
\* stronger role, and the plan holds the org-level action
C6_Witness ==
    /\ Built /\ FailedCalls = {}
    /\ \E o \in OrgIDs, e \in Emails : \E m1, m2 \in DOMAIN mappings :
          /\ m1 < m2 /\ Grants(m1, o, e) /\ Grants(m2, o, e) /\ NotBlocked(e)
          /\ RoleRank(CHOOSE r \in GrantedRoles({m1}) : TRUE)
                > RoleRank(CHOOSE r \in GrantedRoles({m2}) : TRUE)
          /\ OrgKinds(o, e) # {}

Reaches(role, o, name, e) ==
    \E mi \in DOMAIN mappings :
        /\ mappings[mi].OrgID = o /\ OrgPresent(o)
        /\ SameTeamName(mappings[mi].GrafanaTeamName, name)
        /\ mappings[mi].TeamRole = role
        /\ InGroup(mi, e)
\* exactly one add_user_to_team (not yet a member) or update_team_role
\* (already a member) for the user and the team, with team role admin
OneAdminAction(o, name, e) ==
    LET K == TeamKinds(IF IsTeamMember(o, name, e) THEN "update_team_role"
                       ELSE "add_user_to_team", o, name, e)
    IN  Cardinality(K) = 1 /\ \A k \in K : BuiltPlan[k].TeamRole = "admin"

C8_UpdateOnlyIfNotAdmin ==
    Built =>
        \A k \in DOMAIN BuiltPlan :
            BuiltPlan[k].ActionType = "update_team_role"
               => grafana.teamMembers[BuiltPlan[k].TeamID][BuiltPlan[k].Email]
                     # "Admin"

KnownTypes == ExecutableTypes \cup {"blocked_create_user"}
\* every member of a mapped team who is not in the group of the mapping has
\* a remove_user_from_team for that team
StaleRemoved ==
    \A mi \in DOMAIN mappings, e \in Emails :
        (/\ OrgPresent(mappings[mi].OrgID)
         /\ IsTeamMember(mappings[mi].OrgID, mappings[mi].GrafanaTeamName, e)
         /\ ~InGroup(mi, e))
           => TeamKinds("remove_user_from_team", mappings[mi].OrgID,
                        mappings[mi].GrafanaTeamName, e) # {}
NoRemoval ==
    \A k \in DOMAIN BuiltPlan : BuiltPlan[k].ActionType # "remove_user_from_team"
OnlyKnownTypes ==
    \A k \in DOMAIN BuiltPlan : BuiltPlan[k].ActionType \in KnownTypes

C10_OrgRoleReconciliation ==
    Built =>
        \A o \in OrgIDs, e \in Emails :
            LET M == {mi \in DOMAIN mappings : Grants(mi, o, e) /\ Accumulates(mi, e)}
                current == grafana.orgUsers[GrafanaOrgIDOf(o)][e]
                adds == {k \in OrgKinds(o, e) :
                            BuiltPlan[k].ActionType = "add_user_to_org"}
                updates == {k \in OrgKinds(o, e) :
                               BuiltPlan[k].ActionType = "update_user_role"}
            IN  (M # {} /\ <<"ListOrgUsers", o>> \notin FailedCalls)
                   => /\ adds # {} <=> current = ""
                      /\ updates # {} <=>
                            /\ current # ""
                            /\ FoldRole(current) # FoldRole(Strongest(GrantedRoles(M)))

\* one org member holds the accumulated role in another case and has no
\* org-level action, another holds a different role and has an update
C10_Witness ==
    /\ Built /\ FailedCalls = {}
    /\ \E o \in OrgIDs, e \in Emails :
          LET M == {mi \in DOMAIN mappings : Grants(mi, o, e) /\ Accumulates(mi, e)}
              current == grafana.orgUsers[GrafanaOrgIDOf(o)][e]
          IN  /\ M # {} /\ current # ""
              /\ current # Strongest(GrantedRoles(M))
              /\ FoldRole(current) = FoldRole(Strongest(GrantedRoles(M)))
              /\ OrgKinds(o, e) = {}
    /\ \E k \in DOMAIN BuiltPlan : BuiltPlan[k].ActionType = "update_user_role"


\* the org role a mapping requires, as the specification words it
RequiredRole(mi) ==
    CASE mappings[mi].RoleOverride # "" -> mappings[mi].RoleOverride
      [] OrgRow(mappings[mi].OrgID).DefaultRole # "" ->
            OrgRow(mappings[mi].OrgID).DefaultRole
      [] OTHER -> cfg.defaultUserRole
\* the mappings an action of the plan can come from
SourcesOf(k) ==
    {mi \in DOMAIN mappings :
        /\ mappings[mi].OrgID = BuiltPlan[k].OrgID
        /\ mappings[mi].GrafanaTeamName = BuiltPlan[k].TeamName
        /\ mappings[mi].ExternalGroupID = BuiltPlan[k].ExternalGroupID}

\* C11 (role of a mapping): a create_user or add_user_to_team of the plan
\* carries the role override of its mapping, else the default role of the
\* org, else the service-wide default role; and where one mapping alone
\* grants a user an org role, the org-level action carries that role.
C11_RequiredRole ==
    Built =>
        /\ \A k \in DOMAIN BuiltPlan :
               BuiltPlan[k].ActionType \in {"create_user", "add_user_to_team"}
                  => \E mi \in SourcesOf(k) : BuiltPlan[k].Role = RequiredRole(mi)
        /\ \A o \in OrgIDs, e \in Emails :
               LET M == {mi \in DOMAIN mappings :
                            Grants(mi, o, e) /\ Accumulates(mi, e)}
               IN  \A mi \in M :
                      M = {mi} => \A k \in OrgKinds(o, e) :
                                    BuiltPlan[k].Role = RequiredRole(mi)

\* the plan holds an org-level action whose role is the default role of the
\* org (the mapping has no override) and one whose role is the service-wide
\* default role (neither the mapping nor the org has one)
C11_Witness ==
    /\ Built
    /\ \E k \in DOMAIN BuiltPlan : \E mi \in DOMAIN mappings :
          /\ BuiltPlan[k].ActionType \in {"add_user_to_org", "update_user_role"}
          /\ BuiltPlan[k].OrgID = mappings[mi].OrgID
          /\ InGroup(mi, BuiltPlan[k].Email)
          /\ mappings[mi].RoleOverride = ""
          /\ OrgRow(mappings[mi].OrgID).DefaultRole # ""
          /\ BuiltPlan[k].Role = OrgRow(mappings[mi].OrgID).DefaultRole
          /\ BuiltPlan[k].Role # cfg.defaultUserRole
    /\ \E k \in DOMAIN BuiltPlan : \E mi \in DOMAIN mappings :
          /\ BuiltPlan[k].ActionType \in {"add_user_to_org", "update_user_role"}
          /\ BuiltPlan[k].OrgID = mappings[mi].OrgID
          /\ InGroup(mi, BuiltPlan[k].Email)
          /\ mappings[mi].RoleOverride = ""
          /\ OrgRow(mappings[mi].OrgID).DefaultRole = ""
          /\ BuiltPlan[k].Role = cfg.defaultUserRole


(***************************************************************************)
(* The stored plan and the handlers.                                       *)
(***************************************************************************)
PlanRowsOK ==
    /\ Cardinality(plan.plans) <= 1
    /\ \A k \in DOMAIN plan.plan_actions :
          \E r \in plan.plans : r.ID = plan.plan_actions[k].PlanID
\* the handler gets "failed to store plan" from this step
ReplaceFails(p) == pc[p] = "replace" /\ loc'[p].resp = "failed to store plan"

\* C12 (one current plan): the store always holds at most one plan and
\* every stored action carries the id of that plan; a ReplacePlan that
\* fails leaves both tables as they were.
C12_SinglePlan ==
    /\ []PlanRowsOK
    /\ [][\A p \in Handlers : ReplaceFails(p) => plan' = plan]_vars

\* a handler was told "failed to store plan" and the store still holds the
\* plan stored before, with its actions
C12_Witness ==
    /\ \E p \in Handlers : loc[p].resp = "failed to store plan"
    /\ \E r \in plan.plans : r.ID = 1
    /\ plan.plan_actions # <<>>


\* the edges of the status of a stored plan, as the specification draws them
StatusEdges ==
    {<<"planned", "applying">>, <<"applying", "applied">>,
     <<"applying", "failed">>, <<"planned", "applying-selected">>,
     <<"applying-selected", "applied-selected">>,
     <<"applying-selected", "failed">>}

\* C13 (plan status): a step stores a new plan with status planned, and it
\* changes the status of a stored plan only along an edge of the
\* specification; an applied, applied-selected or failed plan has no edge
\* that leaves it.
C13_StatusEdges ==
    [][\A new \in plan'.plans :
          IF \E old \in plan.plans : old.ID = new.ID
          THEN \A old \in plan.plans :
                  old.ID = new.ID
                     => \/ old.Status = new.Status
                        \/ <<old.Status, new.Status>> \in StatusEdges
          ELSE new.Status = "planned"]_vars


\* C14 (visible applying status): while a goroutine is inside the loop of
\* ApplyPlan, for the scheduler or for a run, apply or apply-selected
\* request, the plan the store holds has status applying or
\* applying-selected.
C14_ApplyingWhileExecuting ==
    \A p \in Procs :
        Executing(p) => Latest.Status \in {"applying", "applying-selected"}


(***************************************************************************)
(* Execution of a batch by the scheduled cycle.                            *)
(***************************************************************************)
\* ApplyPlan has returned an error
Aborted(p) == pc[p] = "finish" /\ loc[p].err \notin {"", "ok", "list failed"}
\* the place in execution order of the action that failed
FailedAt(p) == loc[p].i - 1
\* the platform still shows what an executed action created
EffectRemains(x) ==
    CASE x.ActionType = "create_user" -> x.Email \in grafana.users
      [] x.ActionType = "create_team" ->
            \E t \in grafana.teams : t = TeamIDOf(x.GrafanaOrgID, x.TeamName)
      [] x.ActionType = "add_user_to_org" ->
            grafana.orgUsers[x.GrafanaOrgID][x.Email] # ""
      [] OTHER -> TRUE

\* C15 (abort without rollback): when ApplyPlan returns an error, every
\* action it executed stands before the failed one in execution order, what
\* the executed actions created is still on the platform, and Run hands the
\* error on.
C15_AbortNoRollback ==
    /\ [](Aborted(Scheduler) =>
            /\ FailedAt(Scheduler) \in DOMAIN loc[Scheduler].order
            /\ \A a \in DOMAIN loc[Scheduler].done :
                  /\ \E j \in 1..(FailedAt(Scheduler) - 1) :
                        loc[Scheduler].order[j] = loc[Scheduler].done[a]
                  /\ EffectRemains(Executed(Scheduler, a)))
    /\ [][Aborted(Scheduler) =>
            /\ pc'[Scheduler] = "idle"
            /\ loc'[Scheduler].resp = "error"
            /\ lastRun'.msg = loc[Scheduler].err
            /\ grafana' = grafana]_vars

\* ApplyPlan returned an error after it had created a user, and actions of
\* the batch are left that were not executed
C15_Witness ==
    /\ Aborted(Scheduler)
    /\ FailedAt(Scheduler) < Len(loc[Scheduler].order)
    /\ \E a \in DOMAIN loc[Scheduler].done :
          Executed(Scheduler, a).ActionType = "create_user"


\* the operation of p returns in this step, and its ApplyPlan had returned
\* an error
ReturnsAborted(p) ==
    /\ pc[p] \in {"finish", "final"} /\ pc'[p] = "idle"
    /\ loc[p].err \notin {"", "ok", "list failed"}
FailureResponses == {"error", "apply failed"}

\* C16 (failed execution): when the execution of a plan aborts with an
\* error, on the scheduled Run or a run, apply or apply-selected request,
\* the caller is told of the failure and the stored plan is left with
\* status failed.
C16_AbortReportedAndFailed ==
    [][\A p \in Procs :
          ReturnsAborted(p) =>
              /\ loc'[p].resp \in FailureResponses
              /\ Latest'.Status = "failed"]_vars


\* the action the loop of ApplyPlan is about to execute
Current(p) == loc[p].input[loc[p].order[loc[p].i]]
\* the platform refuses to change the org role: an external directory
\* manages the membership of the user
ExternallyManaged(x) ==
    /\ x.ActionType = "update_user_role"
    /\ x.Email \in grafana.users
    /\ x.Email \in grafana.externallySynced
    /\ grafana.orgUsers[x.GrafanaOrgID][x.Email] # ""
PlaceOf(p, k) == CHOOSE j \in DOMAIN loc[p].order : loc[p].order[j] = k

\* C17 (externally managed membership): an update_user_role the platform
\* refuses as externally managed is skipped: it changes nothing, writes no
\* audit record and does not end the batch (a failed lookup of the user
\* aside); nothing else is ever skipped; any other error of UpdateUserRole
\* ends the batch.
C17_ExternallyManagedSkipped ==
    /\ [][(pc[Scheduler] = "apply" /\ ExternallyManaged(Current(Scheduler))
             /\ loc'[Scheduler].err # "lookup user failed")
            => /\ loc'[Scheduler].skipped =
                     loc[Scheduler].skipped
                        \cup {loc[Scheduler].order[loc[Scheduler].i]}
               /\ loc'[Scheduler].done = loc[Scheduler].done
               /\ loc'[Scheduler].err \in {"", "ok"}
               /\ syncActions' = syncActions
               /\ grafana' = grafana]_vars
    /\ [](\A k \in loc[Scheduler].skipped :
            /\ loc[Scheduler].input[k].ActionType = "update_user_role"
            /\ loc[Scheduler].input[k].Email \in grafana.externallySynced)
    /\ [](loc[Scheduler].err = "update user role failed"
            => pc[Scheduler] = "finish")

\* a batch has ended well in which an update_user_role was skipped and an
\* action standing after it was executed
C17_Witness ==
    /\ pc[Scheduler] = "finish" /\ loc[Scheduler].err = "ok"
    /\ \E k \in loc[Scheduler].skipped : \E a \in DOMAIN loc[Scheduler].done :
          PlaceOf(Scheduler, k) < PlaceOf(Scheduler, loc[Scheduler].done[a])
    /\ syncActions # <<>>


\* the ledger has grown by exactly the record of action x
AuditedOnce(x) ==
    /\ Len(syncActions') = Len(syncActions) + 1
    /\ SubSeq(syncActions', 1, Len(syncActions)) = syncActions
    /\ LET row == syncActions'[Len(syncActions')]
       IN  /\ row.ActionType = x.ActionType
           /\ row.OrgID = x.OrgID
           /\ row.TeamName = x.TeamName
           /\ row.Email = x.Email

\* C18 (audit trail): every iteration of ApplyPlan that executes its action
\* successfully appends exactly the audit record of that action to the
\* ledger; an iteration that skips (externally managed), meets a
\* blocked_create_user or aborts appends nothing, and nothing is appended
\* once the batch has ended.
C18_AuditTrail ==
    [][\A p \in Procs :
          /\ (pc[p] = "apply" /\ loc'[p].i = loc[p].i + 1)
                => IF loc'[p].done # loc[p].done
                   THEN AuditedOnce(Current(p))
                   ELSE syncActions' = syncActions
          /\ (\A q \in Procs : pc[q] # "apply") => syncActions' = syncActions]_vars


\* goroutine p takes a step in which a write to the store fails: ReplacePlan,
\* UpdatePlanStatus, or, behind a platform call of ApplyPlan that went well,
\* UpdateMappingTeamIDForName or RecordSyncAction
PersistenceFails(p) ==
    /\ failures' = failures + 1
    /\ pc'[p] # pc[p] \/ loc'[p] # loc[p]
    /\ \/ pc[p] \in {"replace", "status", "final"}
       \/ pc[p] = "apply" /\ loc'[p].done # loc[p].done

\* the operation of p stops there with a failure: an error response, or
\* ApplyPlan returning an error
EndsInFailure(p) ==
    \/ pc'[p] = "idle" /\ loc'[p].resp \notin {"", "redirect", "nil"}
    \/ pc'[p] = "finish" /\ loc'[p].err \notin {"", "ok"}

\* C19 (persistence failures are fatal): a failing ReplacePlan,
\* UpdatePlanStatus, UpdateMappingTeamIDForName or RecordSyncAction ends the
\* operation that made the call, which reports failure and not success.
C19_PersistenceFatal ==
    [][\A p \in Procs : PersistenceFails(p) => EndsInFailure(p)]_vars


UserLevelTypes ==
    {"create_user", "blocked_create_user", "add_user_to_team",
     "update_team_role", "remove_user_from_team"}
\* the directory listing or the team listing of the mapping failed
ListingFailed(mi) == OrgPresent(mappings[mi].OrgID) /\ ~Collected(mi)
\* the plan action was emitted for mapping mi
OnAccountOf(k, mi) ==
    /\ \E j \in 1..(Len(BuiltPlan[k].Note) - 1) :
          BuiltPlan[k].Note[j] = "mapping" /\ BuiltPlan[k].Note[j + 1] = mi
    /\ BuiltPlan[k].OrgID = mappings[mi].OrgID
    /\ BuiltPlan[k].TeamName = mappings[mi].GrafanaTeamName
    /\ BuiltPlan[k].ExternalGroupID = mappings[mi].ExternalGroupID
HasMember(mi, e) ==
    TeamSeen(mi) # 0 /\ grafana.teamMembers[TeamSeen(mi)][e] # ""
\* what a mapping whose listings went well owes to the plan
Processed(mi) ==
    /\ \A e \in Emails :
          (InGroup(mi, e) /\ LookedUp(mi, e)) =>
             /\ (e \notin grafana.users /\ ~cfg.allowCreateUsers) =>
                   \E k \in KindsOf({"blocked_create_user"}, e) : OnAccountOf(k, mi)
             /\ (e \notin grafana.users /\ cfg.allowCreateUsers) =>
                   \E k \in KindsOf({"create_user"}, e) : OnAccountOf(k, mi)
             /\ (NotBlocked(e) /\ ~HasMember(mi, e)) =>
                   TeamKinds("add_user_to_team", mappings[mi].OrgID,
                             mappings[mi].GrafanaTeamName, e) # {}
    /\ \A e \in Emails :
          (cfg.allowRemoveUsers /\ HasMember(mi, e) /\ ~InGroup(mi, e)) =>
             \E k \in KindsOf({"remove_user_from_team"}, e) : OnAccountOf(k, mi)

\* the mappings, their listings gone well, that make the user of plan action
\* k an admin of its team
AdminOwedTo(k) ==
    {mi \in DOMAIN mappings :
        /\ Collected(mi)
        /\ mappings[mi].OrgID = BuiltPlan[k].OrgID
        /\ SameTeamName(mappings[mi].GrafanaTeamName, BuiltPlan[k].TeamName)
        /\ mappings[mi].TeamRole = "admin"
        /\ InGroup(mi, BuiltPlan[k].Email)}

\* C20 (collection failures are not fatal): a build in which the directory
\* listing or the team listing of a mapping failed still returns its plan
\* without an error; the plan holds no user-level action on account of that
\* mapping, neither under its name nor owed to the team role it grants; and
\* every mapping whose listings went well is processed as usual.
C20_CollectionNonFatal ==
    /\ loc[Scheduler].fail # {} => loc[Scheduler].err # "list failed"
    /\ Built =>
          /\ \A mi \in DOMAIN mappings :
                ListingFailed(mi) =>
                   \A k \in DOMAIN BuiltPlan :
                      BuiltPlan[k].ActionType \in UserLevelTypes => ~OnAccountOf(k, mi)
          /\ \A k \in DOMAIN BuiltPlan :
                BuiltPlan[k].ActionType \in UserLevelTypes =>
                   \E mi \in DOMAIN mappings : Collected(mi) /\ OnAccountOf(k, mi)
          /\ \A k \in DOMAIN BuiltPlan :
                (/\ BuiltPlan[k].ActionType \in {"add_user_to_team", "update_team_role"}
                 /\ BuiltPlan[k].TeamRole = "admin")
                   => AdminOwedTo(k) # {}
          /\ \A mi \in DOMAIN mappings :
                (OrgPresent(mappings[mi].OrgID) /\ Collected(mi)) => Processed(mi)

\* the platform id of the team mapping mi points to, 0 when there is none
PlatformTeam(mi) ==
    SearchTeam(GrafanaOrgIDOf(mappings[mi].OrgID), mappings[mi].GrafanaTeamName)

\* C21 (team id caching): when a build-and-apply cycle has ended without an
\* error, no call having failed, every mapping whose target team exists on the platform, found by
\* name during the build or created by the batch, has that team's non-zero
\* id cached.
C21_TeamIDCached ==
    (pc[Scheduler] = "finish" /\ loc[Scheduler].err = "ok" /\ failures = 0)
        => \A mi \in DOMAIN mappings :
              (OrgPresent(mappings[mi].OrgID) /\ PlatformTeam(mi) # 0)
                 => mappings[mi].GrafanaTeamID = PlatformTeam(mi)


\* goroutine p runs one iteration of the loop of ApplyPlan
Iterates(p) == pc[p] = "apply" /\ loc'[p].i = loc[p].i + 1
\* the rows of the stored plan the form selects, in the order of the plan
ChosenRows(ids) ==
    LET rows == Latest.Actions
        RECURSIVE From(_)
        From(k) == IF k > Len(rows) THEN <<>>
                   ELSE IF rows[k].ID \in ids
                           /\ rows[k].ActionType # "blocked_create_user"
                        THEN <<rows[k]>> \o From(k + 1)
                        ELSE From(k + 1)
    IN  From(1)

\* C22 (selective execution): apply-selected hands to ApplyPlan exactly the
\* rows of the stored plan whose ids were submitted and whose kind is
\* selectable, and executes no other action; and on no path does an
\* iteration over a blocked_create_user call the platform or write the
\* ledger.
C22_SelectiveExecution ==
    /\ [][\A p \in Handlers :
            (pc[p] = "load" /\ loc[p].op = "apply-selected" /\ pc'[p] = "status")
                => loc'[p].actions = ChosenRows(loc[p].ids)]_vars
    /\ [](\A p \in Handlers :
            (loc[p].op = "apply-selected" /\ pc[p] \in {"apply", "finish"})
                => /\ \A k \in DOMAIN loc[p].input :
                         /\ loc[p].input[k].ID \in loc[p].ids
                         /\ loc[p].input[k].ActionType # "blocked_create_user"
                   /\ \A j \in DOMAIN loc[p].done :
                         loc[p].done[j] \in DOMAIN loc[p].input)
    /\ [][\A p \in Procs :
            (Iterates(p) /\ Current(p).ActionType = "blocked_create_user")
                => /\ grafana' = grafana
                   /\ syncActions' = syncActions
                   /\ failures' = failures
                   /\ loc'[p].done = loc[p].done]_vars

\* apply-selected has executed a proper part of a stored plan: the form
\* named a blocked_create_user and one executable action, and only the
\* executable one was run
C22_Witness ==
    \E p \in Handlers :
        /\ loc[p].op = "apply-selected" /\ pc[p] = "finish" /\ loc[p].err = "ok"
        /\ Len(loc[p].input) = 1 /\ Len(loc[p].done) = 1
        /\ Cardinality(loc[p].ids) = 2
        /\ \E k \in DOMAIN Latest.Actions :
              /\ Latest.Actions[k].ID \in loc[p].ids
              /\ Latest.Actions[k].ActionType = "blocked_create_user"
        /\ Len(Latest.Actions) = 2


\* the one mapping of scenario A: team role member, no role override, its
\* team on the platform, its org with default role Viewer, its group holding
\* one e-mail, which has no platform account; user creation allowed
ScenarioA(e) ==
    /\ Len(mappings) = 1
    /\ OrgPresent(mappings[1].OrgID)
    /\ OrgRow(mappings[1].OrgID).DefaultRole = "Viewer"
    /\ mappings[1].TeamRole = "member" /\ mappings[1].RoleOverride = ""
    /\ PlatformTeam(1) # 0
    /\ WantOf(mappings[1].ExternalGroupID) = {e}
    /\ e \notin grafana.users
    /\ cfg.allowCreateUsers
Brief(a) == <<a.ActionType, a.Email, a.Role, a.TeamRole>>

\* C23 (scenario A): no call failing, the action list BuildPlan returns for
\* scenario A is exactly create_user, add_user_to_org with role Viewer,
\* add_user_to_team with team role member, in that order.
C23_ScenarioA ==
    \A e \in Emails :
        (Built /\ FailedCalls = {} /\ ScenarioA(e))
            => /\ Len(BuiltPlan) = 3
               /\ BuiltPlan[1].ActionType = "create_user" /\ BuiltPlan[1].Email = e
               /\ BuiltPlan[2].ActionType = "add_user_to_org"
               /\ BuiltPlan[2].Email = e /\ BuiltPlan[2].Role = "Viewer"
               /\ BuiltPlan[3].ActionType = "add_user_to_team"
               /\ BuiltPlan[3].Email = e /\ BuiltPlan[3].TeamRole = "member"


\* how often action a stands in the list
Occurrences(a, list) == Cardinality({k \in DOMAIN list : list[k] = a})
\* the two lists hold the same actions, every field alike, the same number
\* of times; the kind of an action fixes its phase, so they do in each phase
SameActions(A, B) ==
    /\ Len(A) = Len(B)
    /\ \A k \in DOMAIN A : Occurrences(A[k], A) = Occurrences(A[k], B)

\* C24 (determinism): the plan a build has returned holds the same actions,
\* notes included, as a build of the same state with the same failing calls
\* under any other order of iterating the e-mails and the orgs.
C24_Determinism ==
    Built => \A ord \in MapOrders :
                SameActions(BuiltPlan, BuildPlan(FailedCalls, ord).Actions)

\* a plan of several actions was built that another order of iteration
\* returns as a different list
C24_Witness ==
    /\ Built /\ Len(BuiltPlan) > 2
    /\ \E ord \in MapOrders : BuildPlan(FailedCalls, ord).Actions # BuiltPlan


\* the batch of p has executed a create_team for the org and the team name
\* of action x
TeamCreatedInBatch(p, x) ==
    \E j \in DOMAIN loc[p].done :
        LET c == loc[p].input[loc[p].done[j]]
        IN  /\ c.ActionType = "create_team" /\ c.OrgID = x.OrgID
            /\ SameTeamName(c.TeamName, x.TeamName)
\* the team id action x can be executed with, 0 when there is none
TeamFor(p, x) ==
    IF x.TeamID # 0 THEN x.TeamID
    ELSE IF TeamCreatedInBatch(p, x) THEN SearchTeam(x.GrafanaOrgID, x.TeamName)
    ELSE 0
\* the platform will answer the call of action x with a conflict (already a
\* member) or, for a removal, with not found
Answered(p, x) ==
    /\ x.Email \in grafana.users
    /\ \/ /\ x.ActionType = "add_user_to_org"
          /\ grafana.orgUsers[x.GrafanaOrgID][x.Email] # ""
       \/ /\ x.ActionType = "add_user_to_team"
          /\ TeamFor(p, x) \in grafana.teams
          /\ grafana.teamMembers[TeamFor(p, x)][x.Email] # ""
       \/ /\ x.ActionType = "remove_user_from_team"
          /\ TeamFor(p, x) # 0
          /\ \/ TeamFor(p, x) \notin grafana.teams
             \/ grafana.teamMembers[TeamFor(p, x)][x.Email] = ""

\* C25 (recoverable conflicts): an add_user_to_org or add_user_to_team the
\* platform answers with a conflict, and a remove_user_from_team it answers
\* with not found, no call failing otherwise, counts as executed: the batch
\* is not aborted, the platform is unchanged and the loop goes on.
C25_ConflictIsSuccess ==
    [][\A p \in Procs :
          (Iterates(p) /\ Answered(p, Current(p)) /\ failures' = failures)
              => /\ loc'[p].done =
                       Append(loc[p].done, loc[p].order[loc[p].i])
                 /\ loc'[p].err \in {"", "ok"}
                 /\ grafana' = grafana
                 /\ loc[p].i < Len(loc[p].order) => pc'[p] = "apply"]_vars

\* a stored plan was applied a second time: its add_user_to_team, its
\* add_user_to_org and its remove_user_from_team met a conflict or not
\* found, and the batch ended well with all three executed
C25_Witness ==
    \E p \in Handlers :
        /\ pc[p] = "finish" /\ loc[p].err = "ok" /\ failures = 0
        /\ lastRun.n = 1 /\ lastRun.msg = "ok"
        /\ Len(syncActions) = 6
        /\ {loc[p].input[loc[p].done[j]].ActionType : j \in DOMAIN loc[p].done}
              = {"add_user_to_org", "add_user_to_team", "remove_user_from_team"}


\* the directory spells the e-mail of a member of the group of mapping mi
\* otherwise than the platform does
SpelledApart(mi, e) ==
    /\ InGroup(mi, e)
    /\ MailOnPlatform(e) \notin entra[mappings[mi].ExternalGroupID]

\* C26 (identity of e-mails): for a user the directory and the platform
\* spell differently, equal after trimming and lower-casing, BuildPlan emits
\* for a mapping it has collected no add_user_to_team and no
\* remove_user_from_team where the user is a member of the team, and no
\* add_user_to_org where the user is a member of the org it has listed.
C26_SameIdentity ==
    Built =>
      \A mi \in DOMAIN mappings : \A e \in Emails :
        (OrgPresent(mappings[mi].OrgID) /\ Collected(mi) /\ SpelledApart(mi, e))
          => /\ HasMember(mi, e) =>
                  \A k \in KindsOf({"add_user_to_team", "remove_user_from_team"}, e) :
                      ~OnAccountOf(k, mi)
             /\ (/\ <<"ListOrgUsers", mappings[mi].OrgID>> \notin FailedCalls
                 /\ grafana.orgUsers[GrafanaOrgIDOf(mappings[mi].OrgID)][e] # "")
                  => \A k \in KindsOf({"add_user_to_org"}, e) :
                        BuiltPlan[k].OrgID # mappings[mi].OrgID

\* a plan was built, no call failing, for a mapping whose group spells a
\* member otherwise than the platform, the user being a member of the team
\* and of the org
C26_Witness ==
    /\ Built /\ FailedCalls = {}
    /\ \E mi \in DOMAIN mappings : \E e \in Emails :
          /\ Collected(mi) /\ SpelledApart(mi, e) /\ HasMember(mi, e)
          /\ grafana.orgUsers[GrafanaOrgIDOf(mappings[mi].OrgID)][e] # ""
          /\ \E raw \in entra[mappings[mi].ExternalGroupID] :
                raw # MailOnPlatform(e) /\ NormalizeEmail(raw) = e


TeamActionTypes == {"add_user_to_team", "update_team_role", "remove_user_from_team"}
\* the team id of the action p is about to execute cannot be resolved
Unresolved(p) ==
    /\ Current(p).ActionType \in TeamActionTypes
    /\ Current(p).TeamID = 0
    /\ ~TeamCreatedInBatch(p, Current(p))

\* C27 (unresolved team id): a team action whose payload has team id 0, no
\* create_team for its org and team name having been executed earlier in
\* the batch, ends ApplyPlan with the error "missing team id": no call is
\* made, nothing is recorded, and no later action of the batch is executed.
C27_MissingTeamIDAborts ==
    /\ [][\A p \in Procs :
            (Iterates(p) /\ Unresolved(p))
                => /\ loc'[p].err = "missing team id"
                   /\ pc'[p] = "finish"
                   /\ loc'[p].done = loc[p].done
                   /\ UNCHANGED <<grafana, syncActions, failures, mappings>>]_vars
    /\ [][\A p \in Procs :
            (loc[p].err = "missing team id" /\ loc'[p].err = "missing team id")
                => /\ loc'[p].done = loc[p].done
                   /\ loc'[p].i = loc[p].i
                   /\ UNCHANGED <<grafana, syncActions>>]_vars

\* apply-selected of two add_user_to_team with team id 0, the create_team
\* of the plan not selected: ApplyPlan has ended at the first with the
\* second left unexecuted
C27_Witness ==
    \E p \in Handlers :
        /\ loc[p].op = "apply-selected" /\ pc[p] = "final"
        /\ loc[p].err = "missing team id"
        /\ loc[p].done = <<>> /\ loc[p].i = 2 /\ Len(loc[p].order) = 2
        /\ \A k \in DOMAIN loc[p].input :
              loc[p].input[k].ActionType = "add_user_to_team"


\* the batch of p has executed a create_user for the e-mail
UserCreatedInBatch(p, e) ==
    \E j \in DOMAIN loc[p].done :
        /\ loc[p].input[loc[p].done[j]].ActionType = "create_user"
        /\ loc[p].input[loc[p].done[j]].Email = e

\* C28 (deferred id resolution): an action with user id 0 in its payload,
\* executed after the create_user of its e-mail in the same batch, makes no
\* user lookup, so no lookup can fail; a team action with team id 0,
\* executed after the create_team of its org and team name (up to case),
\* is not refused for a missing team id.
C28_DeferredResolution ==
    [][\A p \in Procs :
          /\ (/\ Iterates(p)
              /\ Current(p).UserID = 0
              /\ UserCreatedInBatch(p, Current(p).Email))
                => loc'[p].err # "lookup user failed"
          /\ (/\ Iterates(p)
              /\ Current(p).ActionType \in TeamActionTypes
              /\ Current(p).TeamID = 0
              /\ TeamCreatedInBatch(p, Current(p)))
                => loc'[p].err # "missing team id"]_vars

\* C29: at most one refresh of the cache of the UI is in flight at any time;
\* a refresh asked for while another goroutine is in flight returns at the
\* guard, without fetching and without writing the cache.
Fetching(g) == ui[g].pos \in {"listOrgs", "listMappings", "load", "store"}

C29_SingleFlight ==
    /\ [](Cardinality({g \in UIGoroutines : Fetching(g)}) <= 1)
    /\ [][\A g \in UIGoroutines :
            (/\ ui[g].pos = "enter"
             /\ ui'[g].pos # "enter"
             /\ \E h \in UIGoroutines \ {g} : Fetching(h))
            => /\ ui'[g].pos = "skipped"
               /\ cache' = cache
               /\ refresh' = refresh]_vars

C29_Witness ==
    \E g, h \in UIGoroutines :
        /\ g # h
        /\ Fetching(h)
        /\ ui[g].pos = "skipped"
        /\ ~IsZero(cache.refreshedAt)

\* C30: the time and the message of the last run are one pair, and when a
\* cycle of build and apply ends, in the scheduler or in the run handler,
\* the message is "ok" if the cycle succeeded and an error text if it
\* failed.
CycleEnds(p) ==
    /\ loc[p].op \in {"scheduled", "run"}
    /\ pc[p] # "idle"
    /\ pc'[p] = "idle"

C30_LastRunPair ==
    [][\A p \in Procs :
          CycleEnds(p)
          => /\ lastRun'.n > 0
             /\ lastRun'.msg # ""
             /\ lastRun'.msg = "ok" <=> loc'[p].resp \in {"nil", "redirect"}]_vars

\* C31: a scheduled cycle that fails is not attempted again before the next
\* tick, the failure does not stop the scheduler, and the cycle of the next
\* tick builds its plan from the state it collects then: what the failed
\* cycle had created is not created again and is named by its id.
FailedBefore == lastRun.n > 0 /\ lastRun.msg # "ok"

Fresh(a) ==
    /\ a.ActionType = "create_team"
          => TeamIDOf(a.GrafanaOrgID, a.TeamName) \notin grafana.teams
    /\ a.ActionType = "create_user" => a.Email \notin grafana.users
    /\ (a.Email \in grafana.users
        /\ a.ActionType \in {"add_user_to_org", "add_user_to_team",
                             "update_team_role"})
          => a.UserID = UserIDOf(a.Email)
    /\ (a.TeamName # "" /\ a.ActionType # "create_team"
        /\ TeamIDOf(a.GrafanaOrgID, a.TeamName) \in grafana.teams)
          => a.TeamID = TeamIDOf(a.GrafanaOrgID, a.TeamName)

C31_NoAutomaticRetry ==
    /\ []((Built /\ FailedBefore /\ FailedCalls = {})
            => \A k \in DOMAIN BuiltPlan : Fresh(BuiltPlan[k]))
    /\ []((pc[Scheduler] = "idle" /\ loc[Scheduler].resp = "error"
           /\ cycles < MaxCycles) => ENABLED Tick(Scheduler))
    /\ [][/\ (pc[Scheduler] = "finish" /\ loc[Scheduler].err # "ok")
               => (pc'[Scheduler] = "idle" /\ grafana' = grafana)
          /\ (pc[Scheduler] = "idle" /\ pc'[Scheduler] # "idle")
               => (pc'[Scheduler] = "build" /\ cycles' = cycles + 1
                   /\ loc'[Scheduler].actions = <<>>)]_vars

C31_Witness ==
    /\ Built
    /\ FailedBefore
    /\ FailedCalls = {}
    /\ loc[Scheduler].prev = "incomplete"
    /\ \E k \in DOMAIN BuiltPlan : BuiltPlan[k].ActionType = "add_user_to_team"
    /\ syncActions # <<>>

\* C32: when the listing of the members of an org failed during the build,
\* every (org, e-mail) a role was accumulated for gets one add_user_to_org
\* action with that role, its note flags the failed lookup, and the pair
\* gets no update_user_role action.
OrgListingFailed(o) == OrgPresent(o) /\ <<"ListOrgUsers", o>> \in FailedCalls
Accumulated(o, e) ==
    {mi \in DOMAIN mappings : Grants(mi, o, e) /\ Accumulates(mi, e)}
\* the note of an org-level action is the source of the role, the mapping
\* that gave it, and then what the pass over the orgs adds
FlagsLookupFailure(a) ==
    Len(a.Note) = 5 /\ a.Note[5] = "org user lookup failed"

C32_OrgListingFailed ==
    Built =>
        \A o \in OrgIDs, e \in Emails :
            (OrgListingFailed(o) /\ Accumulated(o, e) # {})
               => /\ Cardinality(OrgKinds(o, e)) = 1
                  /\ \A k \in OrgKinds(o, e) :
                        /\ BuiltPlan[k].ActionType = "add_user_to_org"
                        /\ BuiltPlan[k].Role = Strongest(GrantedRoles(Accumulated(o, e)))
                        /\ FlagsLookupFailure(BuiltPlan[k])

\* the listing failed for an org the user is a member of already
C32_Witness ==
    /\ Built
    /\ \E o \in OrgIDs, e \in Emails :
          /\ OrgListingFailed(o)
          /\ Accumulated(o, e) # {}
          /\ grafana.orgUsers[GrafanaOrgIDOf(o)][e] # ""
          /\ OrgKinds(o, e) # {}

\* C33: the plan BuildPlan returns holds at most one create_user action for
\* an e-mail, also when the user without an account is in the groups of
\* several mappings.
C33_OneCreateUser ==
    Built => \A e \in Emails : Cardinality(KindsOf({"create_user"}, e)) <= 1

\* C34: the plan holds no remove_user_from_team for a team and an e-mail
\* that is in the directory group of one of the mappings of that team.
WantedInTeam(o, name, e) ==
    \E mi \in DOMAIN mappings :
        /\ mappings[mi].OrgID = o
        /\ mappings[mi].GrafanaTeamName = name
        /\ InGroup(mi, e)

C34_NoRemovalOfWanted ==
    Built =>
        \A k \in DOMAIN BuiltPlan :
            BuiltPlan[k].ActionType = "remove_user_from_team"
               => ~WantedInTeam(BuiltPlan[k].OrgID, BuiltPlan[k].TeamName,
                                BuiltPlan[k].Email)

\* C35: an iteration of ApplyPlan on an add_user_to_team, update_team_role,
\* update_user_role or remove_user_from_team whose user id cannot be
\* resolved (0 in the payload, no create_user of the e-mail executed in the
\* batch, no account on the platform) makes no platform call and appends
\* no audit record.
UserUnresolved(p) ==
    /\ Current(p).ActionType \in {"add_user_to_team", "update_team_role",
                                  "update_user_role", "remove_user_from_team"}
    /\ Current(p).UserID = 0
    /\ ~UserCreatedInBatch(p, Current(p).Email)
    /\ Current(p).Email \notin grafana.users

C35_AuditOnlyPerformed ==
    [][\A p \in Procs :
          (Iterates(p) /\ UserUnresolved(p))
             => /\ grafana' = grafana
                /\ syncActions' = syncActions]_vars

\* C36: while an apply or apply-selected handler executes actions, no call
\* having failed, the plan the store holds is the plan the handler loaded
\* and does not show status planned, and the final status the handler
\* writes lands on that plan.
Applies(p) == loc[p].op \in {"apply", "apply-selected"}
StoredIs(p) == Latest = NoPlan \/ Latest.ID = loc[p].planID

C36_AppliedPlanIsStored ==
    [][\A p \in Handlers :
          /\ (Applies(p) /\ Iterates(p) /\ failures = 0)
                => (StoredIs(p) /\ (Latest # NoPlan => Latest.Status # "planned"))
          /\ (Applies(p) /\ pc[p] = "final" /\ pc'[p] = "idle"
              /\ failures' = 0)
                => \A r \in plan'.plans :
                      /\ r.ID = loc[p].planID
                      /\ r.Status \in {"applied", "applied-selected", "failed"}]_vars

\* C37: a preview writes nothing but the stored plan: no step of a handler
\* that serves a preview changes the platform, a mapping (its cached team id
\* included), the audit ledger or the last-run pair.
Steps(p) == pc'[p] # pc[p] \/ loc'[p] # loc[p]

C37_PreviewFrame ==
    [][\A p \in Handlers :
          (loc[p].op = "preview" /\ Steps(p))
             => /\ grafana' = grafana
                /\ mappings' = mappings
                /\ syncActions' = syncActions
                /\ lastRun' = lastRun]_vars

\* a preview has stored a plan with actions, of a mapping whose team id is
\* not cached
C37_Witness ==
    /\ cycles = 1
    /\ \E p \in Handlers : pc[p] = "idle" /\ loc[p].resp = "redirect"
    /\ Latest # NoPlan
    /\ Latest.Status = "planned"
    /\ Latest.Actions # <<>>
    /\ \E mi \in DOMAIN mappings : mappings[mi].GrafanaTeamID = 0

\* C38: the ids of the actions of a plan are never used again: the rows a
\* new plan brings carry ids above those of the rows it supersedes and
\* none that a pending apply-selected request holds; and an apply-selected
\* request whose ids are all of a superseded plan is refused, executes
\* nothing and leaves the stored plan as it is.
Pending(p) == loc[p].op = "apply-selected" /\ pc[p] = "load"
StoredIDs == {plan.plan_actions[k].ID : k \in DOMAIN plan.plan_actions}
NewRows ==
    {plan'.plan_actions[k] : k \in {j \in DOMAIN plan'.plan_actions :
        plan'.plan_actions[j].PlanID \notin {r.ID : r \in plan.plans}}}

C38_ActionIDsNotReused ==
    [][/\ \A a \in NewRows :
             /\ \A id \in StoredIDs : a.ID > id
             /\ \A p \in Handlers : Pending(p) => a.ID \notin loc[p].ids
       /\ \A p \in Handlers :
             (Pending(p) /\ pc'[p] # "load" /\ loc[p].ids \cap StoredIDs = {})
                => /\ pc'[p] = "idle"
                   /\ loc'[p].resp \in {"no valid actions selected",
                                        "no plan available", "failed to load plan"}
                   /\ plan' = plan
                   /\ grafana' = grafana
                   /\ syncActions' = syncActions]_vars

\* a request that selected actions of the first plan was refused while the
\* store holds the second plan, untouched
C38_Witness ==
    /\ \E p \in Handlers :
          pc[p] = "idle" /\ loc[p].resp = "no valid actions selected"
    /\ Latest # NoPlan
    /\ Latest.ID = 2
    /\ Latest.Status = "planned"
    /\ Latest.Actions # <<>>
    /\ syncActions = <<>>

\* C39: a lookup of a user that fails during the build is not taken for
\* "no such user": the plan holds no create_user, blocked_create_user or
\* team action on account of that mapping for the e-mail and no org-level
\* action that names the mapping as its source; and the failure is not
\* kept, so a later mapping whose group holds the e-mail looks the user up
\* and is processed by what the platform answers.
LookupFailedAt(mi, e) ==
    /\ Collected(mi)
    /\ InGroup(mi, e)
    /\ <<"LookupUser", mi, e>> \in FailedCalls
    /\ ~LookedUp(mi, e)
\* the note of an org-level action: role source, role, "mapping", index
NamesMapping(k, mi) ==
    /\ Len(BuiltPlan[k].Note) >= 4
    /\ BuiltPlan[k].Note[3] = "mapping"
    /\ BuiltPlan[k].Note[4] = mi
LooksUpAfter(m2, mi, e) ==
    /\ m2 > mi
    /\ Collected(m2)
    /\ InGroup(m2, e)
    /\ <<"LookupUser", m2, e>> \notin FailedCalls
    /\ \A k \in 1..(m2 - 1) : LookupFailedAt(k, e) \/ ~InGroup(k, e) \/ ~Collected(k)

C39_LookupFailureSkips ==
    Built =>
        \A mi \in DOMAIN mappings, e \in Emails :
            LookupFailedAt(mi, e)
               => /\ \A k \in KindsOf(UserLevelTypes, e) : ~OnAccountOf(k, mi)
                  /\ \A k \in OrgKinds(mappings[mi].OrgID, e) : ~NamesMapping(k, mi)
                  /\ \A m2 \in DOMAIN mappings :
                        LooksUpAfter(m2, mi, e)
                           => /\ (e \notin grafana.users /\ cfg.allowCreateUsers)
                                    => \E k \in KindsOf({"create_user"}, e) :
                                          OnAccountOf(k, m2)
                              /\ (e \notin grafana.users /\ ~cfg.allowCreateUsers)
                                    => \E k \in KindsOf({"blocked_create_user"}, e) :
                                          OnAccountOf(k, m2)
                              /\ (e \in grafana.users /\ ~HasMember(m2, e))
                                    => \E k \in KindsOf({"add_user_to_team"}, e) :
                                          /\ OnAccountOf(k, m2)
                                          /\ BuiltPlan[k].UserID = UserIDOf(e)

\* the lookup failed for the first mapping, the second looked the user up,
\* found no account and planned its creation
C39_Witness ==
    /\ Built
    /\ \E mi, m2 \in DOMAIN mappings, e \in Emails :
          /\ LookupFailedAt(mi, e)
          /\ LooksUpAfter(m2, mi, e)
          /\ e \notin grafana.users
          /\ \E k \in KindsOf({"create_user"}, e) : OnAccountOf(k, m2)

\* C40: the flag of the single flight is always lowered.  A goroutine that
\* raised it comes to the return after a failed read of the store or to the
\* return after the cache was stored, and the flag is down when it does;
\* the flag is up only while some goroutine is between the guard and its
\* return, so a raised flag is lowered in the end; and a goroutine that
\* comes to the guard while the flag is down passes it and fetches.
Holds(g) == Fetching(g)
C40_GuardReleased ==
    /\ \A g \in UIGoroutines :
          Holds(g) ~> (ui[g].pos \in {"failed", "stored"} /\ ~refresh)
    /\ refresh ~> ~refresh
    /\ [](refresh <=> \E g \in UIGoroutines : Holds(g))
    /\ [][\A g \in UIGoroutines :
             /\ (Holds(g) /\ ~Holds(g)')
                   => (~refresh' /\ ui'[g].pos \in {"failed", "stored"})
             /\ (ui[g].pos = "enter" /\ ~refresh /\ ui'[g].pos # "enter")
                   => (Holds(g)' /\ refresh')]_vars

\* a refresh failed on a read of the store and returned, and a refresh that
\* came to the guard after it holds the flag and fetches
C40_Witness ==
    \E g, h \in UIGoroutines :
        /\ g # h
        /\ ui[g].pos = "failed"
        /\ Holds(h)
        /\ refresh

=============================================================================
